---------------------------- MODULE Spec2Model ----------------------------
(***************************************************************************)
(* Model of the Scout in-browser tracking agent, src/static/js/track.js    *)
(* (the revision of lines 1-573).                                          *)
(*                                                                         *)
(* Strings of the program are sequences of Unicode code points (naturals); *)
(* a "byte string" (the argument of btoa, the result of atob) is a         *)
(* sequence of code points below 256.  Operations of the platform that can *)
(* throw return a record [ok |-> BOOLEAN, val |-> ...].                    *)
(***************************************************************************)
EXTENDS Integers, Sequences, FiniteSets, TLC

(***************************************************************************)
(* Bounds of the model.                                                    *)
(***************************************************************************)
\* longest string handed to the codec in the codec specification
MaxStrLen == 3

(***************************************************************************)
(* Generic helpers on sequences.                                           *)
(***************************************************************************)
Last(s) == s[Len(s)]

RECURSIVE FlattenSeq(_)
FlattenSeq(ss) == IF ss = <<>> THEN <<>> ELSE Head(ss) \o FlattenSeq(Tail(ss))

RECURSIVE ReplaceChar(_, _, _)
\* String.prototype.replace(/from/g, to) for a single character
ReplaceChar(s, from, to) ==
    IF s = <<>> THEN <<>>
    ELSE <<(IF Head(s) = from THEN to ELSE Head(s))>> \o ReplaceChar(Tail(s), from, to)

RECURSIVE StripTrailing(_, _)
\* String.prototype.replace(/c+$/, '')
StripTrailing(s, c) ==
    IF s # <<>> /\ Last(s) = c THEN StripTrailing(SubSeq(s, 1, Len(s) - 1), c) ELSE s

Min(a, b) == IF a < b THEN a ELSE b

(***************************************************************************)
(* Platform: encodeURIComponent / decodeURIComponent / btoa / atob.        *)
(***************************************************************************)
\* hexadecimal digit n (0..15) as an upper case / lower case character
HexUpper(n) == IF n < 10 THEN 48 + n ELSE 55 + n
HexLower(n) == IF n < 10 THEN 48 + n ELSE 87 + n

\* value of a hexadecimal digit character, -1 when it is none
HexValue(c) ==
    IF c >= 48 /\ c <= 57 THEN c - 48
    ELSE IF c >= 65 /\ c <= 70 THEN c - 55
    ELSE IF c >= 97 /\ c <= 102 THEN c - 87
    ELSE -1

\* [0-9A-F]
IsUpperHex(c) == (c >= 48 /\ c <= 57) \/ (c >= 65 /\ c <= 70)

\* UTF-8 encoding of one code point
UTF8(cp) ==
    IF cp < 128 THEN <<cp>>
    ELSE IF cp < 2048 THEN <<192 + (cp \div 64), 128 + (cp % 64)>>
    ELSE IF cp < 65536 THEN
        <<224 + (cp \div 4096), 128 + ((cp \div 64) % 64), 128 + (cp % 64)>>
    ELSE <<240 + (cp \div 262144), 128 + ((cp \div 4096) % 64),
           128 + ((cp \div 64) % 64), 128 + (cp % 64)>>

\* characters encodeURIComponent leaves alone: A-Z a-z 0-9 - _ . ! ~ * ' ( )
IsUnreserved(c) ==
    \/ (c >= 65 /\ c <= 90) \/ (c >= 97 /\ c <= 122) \/ (c >= 48 /\ c <= 57)
    \/ c \in {45, 95, 46, 33, 126, 42, 39, 40, 41}

RECURSIVE PercentEncode(_)
\* the bytes as %XX escapes with upper case digits
PercentEncode(bytes) ==
    IF bytes = <<>> THEN <<>>
    ELSE <<37, HexUpper(Head(bytes) \div 16), HexUpper(Head(bytes) % 16)>>
            \o PercentEncode(Tail(bytes))

RECURSIVE encodeURIComponent(_)
encodeURIComponent(s) ==
    IF s = <<>> THEN <<>>
    ELSE (IF IsUnreserved(Head(s)) THEN <<Head(s)>> ELSE PercentEncode(UTF8(Head(s))))
            \o encodeURIComponent(Tail(s))

\* number of bytes announced by the lead byte of a UTF-8 sequence, 0 if invalid
UTF8Width(b) ==
    IF b < 128 THEN 1
    ELSE IF b >= 194 /\ b <= 223 THEN 2
    ELSE IF b >= 224 /\ b <= 239 THEN 3
    ELSE IF b >= 240 /\ b <= 244 THEN 4
    ELSE 0

IsContinuation(b) == b >= 128 /\ b <= 191

\* the code point of a complete UTF-8 sequence of the announced width
UTF8Value(bs) ==
    IF Len(bs) = 1 THEN bs[1]
    ELSE IF Len(bs) = 2 THEN (bs[1] - 192) * 64 + (bs[2] - 128)
    ELSE IF Len(bs) = 3 THEN (bs[1] - 224) * 4096 + (bs[2] - 128) * 64 + (bs[3] - 128)
    ELSE (bs[1] - 240) * 262144 + (bs[2] - 128) * 4096 + (bs[3] - 128) * 64 + (bs[4] - 128)

\* a well formed UTF-8 sequence: continuation bytes, no overlong form, no
\* surrogate, nothing above U+10FFFF
UTF8WellFormed(bs) ==
    /\ \A i \in 2..Len(bs) : IsContinuation(bs[i])
    /\ LET cp == UTF8Value(bs) IN
        /\ (Len(bs) = 3 => cp >= 2048 /\ ~(cp >= 55296 /\ cp <= 57343))
        /\ (Len(bs) = 4 => cp >= 65536 /\ cp <= 1114111)

RECURSIVE UTF8Decode(_)
\* bytes -> [ok, val]: the code points, or a failure on malformed UTF-8
UTF8Decode(bytes) ==
    IF bytes = <<>> THEN [ok |-> TRUE, val |-> <<>>]
    ELSE LET w == UTF8Width(Head(bytes)) IN
        IF w = 0 \/ w > Len(bytes) \/ ~UTF8WellFormed(SubSeq(bytes, 1, w))
        THEN [ok |-> FALSE, val |-> <<>>]
        ELSE LET rest == UTF8Decode(SubSeq(bytes, w + 1, Len(bytes))) IN
            IF rest.ok
            THEN [ok |-> TRUE, val |-> <<UTF8Value(SubSeq(bytes, 1, w))>> \o rest.val]
            ELSE rest

RECURSIVE PercentRuns(_)
\* the bytes of a string made of %xx escapes only (what valueDecoder builds)
PercentRuns(s) ==
    IF s = <<>> THEN <<>>
    ELSE <<16 * HexValue(s[2]) + HexValue(s[3])>> \o PercentRuns(SubSeq(s, 4, Len(s)))

\* decodeURIComponent of a string made of %xx escapes only: URIError (ok =
\* FALSE) when the escaped bytes are not well formed UTF-8
decodeURIComponent(s) == UTF8Decode(PercentRuns(s))

\* the i-th character of the base-64 alphabet A-Z a-z 0-9 + /
B64Char(i) ==
    IF i < 26 THEN 65 + i
    ELSE IF i < 52 THEN 71 + i
    ELSE IF i < 62 THEN i - 4
    ELSE IF i = 62 THEN 43 ELSE 47

\* index of a base-64 character, -1 when it is none
B64Index(c) ==
    IF c >= 65 /\ c <= 90 THEN c - 65
    ELSE IF c >= 97 /\ c <= 122 THEN c - 71
    ELSE IF c >= 48 /\ c <= 57 THEN c + 4
    ELSE IF c = 43 THEN 62
    ELSE IF c = 47 THEN 63
    ELSE -1

RECURSIVE btoa(_)
\* base-64 of a byte string, with '=' (61) padding
btoa(bytes) ==
    IF bytes = <<>> THEN <<>>
    ELSE IF Len(bytes) = 1 THEN
        <<B64Char(bytes[1] \div 4), B64Char((bytes[1] % 4) * 16), 61, 61>>
    ELSE IF Len(bytes) = 2 THEN
        <<B64Char(bytes[1] \div 4),
          B64Char((bytes[1] % 4) * 16 + (bytes[2] \div 16)),
          B64Char((bytes[2] % 16) * 4), 61>>
    ELSE
        <<B64Char(bytes[1] \div 4),
          B64Char((bytes[1] % 4) * 16 + (bytes[2] \div 16)),
          B64Char((bytes[2] % 16) * 4 + (bytes[3] \div 64)),
          B64Char(bytes[3] % 64)>> \o btoa(SubSeq(bytes, 4, Len(bytes)))

RECURSIVE B64Bytes(_)
\* the bytes of unpadded base-64 data whose length is not 1 modulo 4
B64Bytes(d) ==
    IF Len(d) < 2 THEN <<>>
    ELSE LET a == B64Index(d[1])
             b == B64Index(d[2])
         IN IF Len(d) = 2 THEN <<a * 4 + (b \div 16)>>
            ELSE LET c == B64Index(d[3]) IN
                IF Len(d) = 3 THEN <<a * 4 + (b \div 16), (b % 16) * 16 + (c \div 4)>>
                ELSE <<a * 4 + (b \div 16), (b % 16) * 16 + (c \div 4),
                       (c % 4) * 64 + B64Index(d[4])>>
                        \o B64Bytes(SubSeq(d, 5, Len(d)))

\* atob (forgiving base-64 decode): one or two trailing '=' are dropped when
\* the length is a multiple of 4; then a length of 1 modulo 4 or a character
\* outside the alphabet is an InvalidCharacterError (ok = FALSE)
atob(data) ==
    LET n == Len(data)
        d == IF n > 0 /\ n % 4 = 0 /\ data[n] = 61
             THEN (IF data[n - 1] = 61 THEN SubSeq(data, 1, n - 2)
                   ELSE SubSeq(data, 1, n - 1))
             ELSE data
    IN IF Len(d) % 4 = 1 \/ \E i \in 1..Len(d) : B64Index(d[i]) = -1
       THEN [ok |-> FALSE, val |-> <<>>]
       ELSE [ok |-> TRUE, val |-> B64Bytes(d)]

(***************************************************************************)
(* The cookie codec.                                                       *)
(***************************************************************************)
RECURSIVE ReplacePercentEscapes(_)
\* .replace(/%([0-9A-F]{2})/g, (_, b) => String.fromCharCode('0x' + b))
ReplacePercentEscapes(s) ==
    IF s = <<>> THEN <<>>
    ELSE IF s[1] = 37 /\ Len(s) >= 3 /\ IsUpperHex(s[2]) /\ IsUpperHex(s[3])
    THEN <<16 * HexValue(s[2]) + HexValue(s[3])>>
            \o ReplacePercentEscapes(SubSeq(s, 4, Len(s)))
    ELSE <<s[1]>> \o ReplacePercentEscapes(Tail(s))

\* the byte string valueEncoder hands to btoa
safeString(value) == ReplacePercentEscapes(encodeURIComponent(value))

\* swaps the two web-safe substitutes: '+' becomes '_' and '/' becomes '-'
valueEncoderSwapped(value) ==
    StripTrailing(ReplaceChar(ReplaceChar(btoa(safeString(value)), 43, 95), 47, 45), 61)

valueEncoder(value) ==
    StripTrailing(ReplaceChar(ReplaceChar(btoa(safeString(value)), 43, 45), 47, 95), 61)

\* '=='.substring(0, n)
PaddingPrefix(n) == SubSeq(<<61, 61>>, 1, Min(n, 2))

\* the first statement of valueDecoder: web-safe base-64 back to base-64
restoredBase64(value) ==
    ReplaceChar(ReplaceChar(value, 45, 43), 95, 47) \o PaddingPrefix((3 * Len(value)) % 4)

RECURSIVE hexEncoded(_)
\* each character c of the byte string as '%' + ('00' + c.toString(16)).slice(-2)
hexEncoded(bytes) ==
    IF bytes = <<>> THEN <<>>
    ELSE <<37, HexLower(Head(bytes) \div 16), HexLower(Head(bytes) % 16)>>
            \o hexEncoded(Tail(bytes))

\* track.js 517-528; [ok, val, err]: the decoded string, or the exception
\* atob or decodeURIComponent throws
valueDecoder(value) ==
    LET base64 == restoredBase64(value)
        bin == atob(base64)
    IN IF ~bin.ok THEN [ok |-> FALSE, val |-> <<>>, err |-> "InvalidCharacterError"]
       ELSE LET decoded == decodeURIComponent(hexEncoded(bin.val))
            IN IF decoded.ok THEN [ok |-> TRUE, val |-> decoded.val, err |-> ""]
               ELSE [ok |-> FALSE, val |-> <<>>, err |-> "URIError"]

(***************************************************************************)
(* JavaScript values.  A value is a record [t, n, s, o]: t is the type tag, *)
(* n the number, s the string, o the own properties of an object (a        *)
(* function from property names, as strings of code points, to values).    *)
(***************************************************************************)
NoProps == [k \in {} |-> 0]
Null == [t |-> "null", n |-> 0, s |-> <<>>, o |-> NoProps]
Undefined == [t |-> "undefined", n |-> 0, s |-> <<>>, o |-> NoProps]
NaN == [t |-> "NaN", n |-> 0, s |-> <<>>, o |-> NoProps]
Num(n) == [t |-> "number", n |-> n, s |-> <<>>, o |-> NoProps]
Str(s) == [t |-> "string", n |-> 0, s |-> s, o |-> NoProps]
Bool(b) == [t |-> "boolean", n |-> (IF b THEN 1 ELSE 0), s |-> <<>>, o |-> NoProps]
Obj(props) == [t |-> "object", n |-> 0, s |-> <<>>, o |-> props]

\* property names and string literals of the program, as code points
K_bid == <<98, 105, 100>>
K_sid == <<115, 105, 100>>
K_svc == <<115, 118, 99>>
K_ts == <<116, 115>>
S_dnt == <<100, 110, 116>>
S_null == <<110, 117, 108, 108>>

RECURSIVE Digits(_)
\* decimal digits of a natural number
Digits(n) == IF n < 10 THEN <<48 + n>> ELSE Digits(n \div 10) \o <<48 + (n % 10)>>

\* String(v) of a primitive value (the coercion encodeURIComponent applies)
JsString(v) ==
    IF v.t = "string" THEN v.s
    ELSE IF v.t = "number" THEN Digits(v.n)
    ELSE IF v.t = "null" THEN S_null
    ELSE IF v.t = "NaN" THEN <<78, 97, 78>>
    ELSE <<117, 110, 100, 101, 102, 105, 110, 101, 100>>

\* v.key: the property, undefined when there is none; reading a property of
\* null or undefined is a TypeError (ok = FALSE)
GetProp(v, key) ==
    IF v.t \in {"null", "undefined"} THEN [ok |-> FALSE, val |-> Undefined]
    ELSE IF v.t = "object" /\ key \in DOMAIN v.o THEN [ok |-> TRUE, val |-> v.o[key]]
    ELSE [ok |-> TRUE, val |-> Undefined]

\* v + 1 (the effect of v += 1)
PlusOne(v) ==
    IF v.t = "number" THEN Num(v.n + 1)
    ELSE IF v.t = "null" THEN Num(1)
    ELSE IF v.t = "boolean" THEN Num(v.n + 1)
    ELSE IF v.t = "string" THEN Str(v.s \o <<49>>)
    ELSE IF v.t = "object" THEN Str(<<91, 111, 98, 106, 101, 99, 116, 32, 79, 98, 106, 101, 99, 116, 93, 49>>)
    ELSE NaN

\* v === w
StrictEquals(v, w) == v.t = w.t /\ v.t # "NaN" /\ v = w

(***************************************************************************)
(* JSON.stringify and JSON.parse, for texts without white space and        *)
(* without escapes, and objects whose properties hold primitive values.    *)
(***************************************************************************)
\* JSON text of a primitive value; undefined has none (the property is left out)
JSONPrimitive(v) ==
    IF v.t = "number" THEN Digits(v.n)
    ELSE IF v.t = "string" THEN <<34>> \o v.s \o <<34>>
    ELSE IF v.t = "boolean" THEN (IF v.n = 1 THEN <<116, 114, 117, 101>> ELSE <<102, 97, 108, 115, 101>>)
    ELSE S_null

RECURSIVE JSONMembers(_, _, _)
\* the members keys[i..] of the object, properties holding undefined left out
JSONMembers(props, keys, first) ==
    IF keys = <<>> THEN <<>>
    ELSE IF props[Head(keys)].t = "undefined" THEN JSONMembers(props, Tail(keys), first)
    ELSE (IF first THEN <<>> ELSE <<44>>)
            \o <<34>> \o Head(keys) \o <<34, 58>> \o JSONPrimitive(props[Head(keys)])
            \o JSONMembers(props, Tail(keys), FALSE)

\* JSON.stringify of an object literal whose properties are written in the
\* order keys
JSONstringify(props, keys) == <<123>> \o JSONMembers(props, keys, TRUE) \o <<125>>

IsDigit(c) == c >= 48 /\ c <= 57

RECURSIVE NumberValue(_)
NumberValue(ds) ==
    IF ds = <<>> THEN 0 ELSE 10 * NumberValue(SubSeq(ds, 1, Len(ds) - 1)) + (Last(ds) - 48)

\* length of the longest prefix of s made of characters satisfying a test
RECURSIVE DigitRun(_)
DigitRun(s) == IF s # <<>> /\ IsDigit(Head(s)) THEN 1 + DigitRun(Tail(s)) ELSE 0

RECURSIVE UntilQuote(_)
\* number of characters before the next '"', -1 when there is none
UntilQuote(s) ==
    IF s = <<>> THEN -1
    ELSE IF Head(s) = 34 THEN 0
    ELSE LET r == UntilQuote(Tail(s)) IN IF r = -1 THEN -1 ELSE r + 1

\* a primitive JSON value at the head of s: [ok, val, rest]
ParsePrimitive(s) ==
    IF s # <<>> /\ IsDigit(s[1]) /\ (s[1] # 48 \/ DigitRun(s) = 1) THEN
        LET k == DigitRun(s) IN
        [ok |-> TRUE, val |-> Num(NumberValue(SubSeq(s, 1, k))), rest |-> SubSeq(s, k + 1, Len(s))]
    ELSE IF s # <<>> /\ s[1] = 34 /\ UntilQuote(Tail(s)) # -1 THEN
        LET k == UntilQuote(Tail(s)) IN
        [ok |-> TRUE, val |-> Str(SubSeq(s, 2, k + 1)), rest |-> SubSeq(s, k + 3, Len(s))]
    ELSE IF Len(s) >= 4 /\ SubSeq(s, 1, 4) = S_null THEN
        [ok |-> TRUE, val |-> Null, rest |-> SubSeq(s, 5, Len(s))]
    ELSE IF Len(s) >= 4 /\ SubSeq(s, 1, 4) = <<116, 114, 117, 101>> THEN
        [ok |-> TRUE, val |-> Bool(TRUE), rest |-> SubSeq(s, 5, Len(s))]
    ELSE IF Len(s) >= 5 /\ SubSeq(s, 1, 5) = <<102, 97, 108, 115, 101>> THEN
        [ok |-> TRUE, val |-> Bool(FALSE), rest |-> SubSeq(s, 6, Len(s))]
    ELSE [ok |-> FALSE, val |-> Undefined, rest |-> s]

RECURSIVE ParseMembers(_, _)
\* the members of an object after its '{': [ok, val (the properties), rest]
ParseMembers(s, props) ==
    IF s # <<>> /\ s[1] = 34 /\ UntilQuote(Tail(s)) # -1 THEN
        LET k == UntilQuote(Tail(s))
            key == SubSeq(s, 2, k + 1)
            after == SubSeq(s, k + 3, Len(s))
        IN IF after = <<>> \/ after[1] # 58 THEN [ok |-> FALSE, val |-> props, rest |-> s]
           ELSE LET v == ParsePrimitive(Tail(after))
                    more == [x \in (DOMAIN props) \cup {key} |->
                                IF x = key THEN v.val ELSE props[x]]
                IN IF ~v.ok \/ v.rest = <<>> THEN [ok |-> FALSE, val |-> props, rest |-> s]
                   ELSE IF v.rest[1] = 125 THEN [ok |-> TRUE, val |-> more, rest |-> Tail(v.rest)]
                   ELSE IF v.rest[1] = 44 THEN ParseMembers(Tail(v.rest), more)
                   ELSE [ok |-> FALSE, val |-> props, rest |-> s]
    ELSE [ok |-> FALSE, val |-> props, rest |-> s]

\* JSON.parse: [ok, val]; ok = FALSE is a SyntaxError
JSONparse(text) ==
    IF text # <<>> /\ text[1] = 123 THEN
        IF Len(text) >= 2 /\ text[2] = 125
        THEN [ok |-> Len(text) = 2, val |-> Obj(NoProps)]
        ELSE LET m == ParseMembers(Tail(text), NoProps) IN
             [ok |-> m.ok /\ m.rest = <<>>, val |-> Obj(m.val)]
    ELSE LET p == ParsePrimitive(text) IN [ok |-> p.ok /\ p.rest = <<>>, val |-> p.val]

(***************************************************************************)
(* The program: configuration and state.                                   *)
(***************************************************************************)
\* config (track.js 61-77); cookie names as strings of code points
cookieBrowserIDName == <<98>>
cookieBrowserExpiration == 60 * 60 * 24 * 10
cookiePrefix == <<64, 115, 95>>
cookieSessionIDName == <<115>>
cookieSessionExpiration == 60 * 60 * 2
cookieTestName == <<99, 104, 107>>
\* the cookie name of the authors' round-trip test (track.js 798): utf8_test
utf8TestName == <<117, 116, 102, 56, 95, 116, 101, 115, 116>>
dataReportInterval == 30
errorEndPoint == "http://127.0.0.1:9292/t/1/err"
trackingEndPoint == "http://127.0.0.1:9292/t/1/ana"

\* ANALYTIC_TYPE
VIEW_START == 0
VIEW_END == 1
VIEW_PERFORMANCE == 2

VARIABLES
    now,            \* the wall clock, in seconds since the model's epoch
    ticks,          \* number of times the clock has been advanced
    nav,            \* the platform: navigator, location, window capabilities
    jar,            \* the browser's cookie store, by cookie name
    pc,             \* per tab: the statement of the script that runs next
    load,           \* per tab: number of page loads so far
    runtimeInfo,    \* per tab: the runtimeInfo object of the page
    timers,         \* per tab: the active intervals of the page, [id, due]
    listeners,      \* per tab: [unload, observer] registrations
    perfSeen,       \* per tab: performance records delivered so far
    pushed,         \* per tab: every event pushed on dataQueue, in order
    console,        \* per tab: number of console.error calls
    cookieUse,      \* per tab: whether the page read / wrote document.cookie
    caught,         \* per tab: the exception the top-level catch caught, if any,
                    \*          and the statement that threw it
    beacons,        \* per tab: the navigator.sendBeacon calls of the page, in order
    queuedOk,       \* result of the latest navigator.sendBeacon call
    codecValue,     \* codec specification: the string under test
    codecToken,     \* codec specification: valueEncoder's result
    codecResult,    \* codec specification: valueDecoder's result
    codecPc,        \* codec specification: next step
    sidCookieRead   \* per tab: the sidCookieContents getCookie returned to setupSessionIdentity
                    \*          (track.js 433), kept while another page runs

progVars == <<now, ticks, nav, jar, pc, load, runtimeInfo, timers, listeners,
              perfSeen, pushed, console, cookieUse, caught, beacons, queuedOk,
              sidCookieRead>>
codecVars == <<codecValue, codecToken, codecResult, codecPc>>
vars == <<now, ticks, nav, jar, pc, load, runtimeInfo, timers, listeners,
          perfSeen, pushed, console, cookieUse, caught, beacons, queuedOk,
          codecValue, codecToken, codecResult, codecPc, sidCookieRead>>

Tabs == {1, 2}

\* let runtimeInfo = { ... } (track.js 86-104)
runtimeInfoInit ==
    [clock |-> Null, cookiesSupported |-> Null, dntDetected |-> Null,
     useSecureCookie |-> Null, browserFirstSeen |-> Null, browserID |-> Null,
     sessionFirstSeen |-> Null, sessionID |-> Null, sessionViewCount |-> Null,
     dataQueue |-> <<>>, queueTimer |-> Null]

\* if (v): the truthiness of a value
Truthy(v) ==
    IF v.t \in {"null", "undefined", "NaN"} THEN FALSE
    ELSE IF v.t \in {"number", "boolean"} THEN v.n # 0
    ELSE IF v.t = "string" THEN v.s # <<>>
    ELSE TRUE

\* the world a handler of tab t runs in: its page's state, the state shared
\* with the other tabs, and accept, the answer of the transport to the
\* sendBeacon calls of this handler
World(t, accept) ==
    [tab |-> t, load |-> load[t], now |-> now, nav |-> nav, accept |-> accept,
     ri |-> runtimeInfo[t], jar |-> jar, timers |-> timers[t],
     listeners |-> listeners[t], pushed |-> pushed[t], console |-> console[t],
     cookieUse |-> cookieUse[t],
     net |-> beacons[t], queuedOk |-> queuedOk]

\* the result of a call: the world after it, what it returned, what it threw
Ret(w, v) == [w |-> w, ret |-> v, exc |-> ""]
Throw(w, e) == [w |-> w, ret |-> Undefined, exc |-> e]

(***************************************************************************)
(* Platform: document.cookie, navigator.sendBeacon, timers.                *)
(***************************************************************************)
\* the cookies of the store, in the order document.cookie lists them
JarOrder == <<cookiePrefix \o cookieBrowserIDName, cookiePrefix \o cookieSessionIDName,
              cookiePrefix \o cookieTestName, cookiePrefix \o utf8TestName>>
JarNames == {JarOrder[i] : i \in 1..Len(JarOrder)}

NoCookie == [present |-> FALSE, value |-> <<>>, hasExpires |-> FALSE, expires |-> 0,
             secure |-> FALSE]

\* a cookie the store still holds and shows at time t
Visible(c, t) == c.present /\ (c.hasExpires => c.expires > t)

\* document.cookie = "name=value[;expires=...];path=/[;secure]": a store that
\* accepts cookies keeps the cookie, or drops it when it is already expired
documentCookieSet(w, name, value, hasExpires, expires, secure) ==
    LET w1 == [w EXCEPT !.cookieUse.written = TRUE] IN
    IF ~w.nav.cookiesWork \/ (secure /\ w.nav.protocol # "https:") THEN w1
    ELSE IF hasExpires /\ expires <= w.now
    THEN [w1 EXCEPT !.jar[name] = NoCookie]
    ELSE [w1 EXCEPT !.jar[name] = [present |-> TRUE, value |-> value,
                                   hasExpires |-> hasExpires, expires |-> expires,
                                   secure |-> secure]]

RECURSIVE CookieItems(_, _)
CookieItems(w, names) ==
    IF names = <<>> THEN <<>>
    ELSE (IF Visible(w.jar[Head(names)], w.now)
          THEN <<[name |-> Head(names), value |-> w.jar[Head(names)].value]>> ELSE <<>>)
            \o CookieItems(w, Tail(names))

\* document.cookie.split(';'): the items name=value of the visible cookies,
\* cookies other scripts set under a longer path first
documentCookieItems(w) == w.nav.pathCookies \o CookieItems(w, JarOrder)

\* navigator.sendBeacon(url, JSON.stringify(pkt))
sendBeacon(w, url, pkt) ==
    [w EXCEPT !.net = Append(w.net, [url |-> url, pkt |-> pkt]),
              !.queuedOk = w.accept]

(***************************************************************************)
(* The program: functions of track.js, in the order of the file.           *)
(***************************************************************************)
cookieName(name) == cookiePrefix \o name

\* an errorHandler that reports to the tracking endpoint
errorHandlerToTrackingEndPoint(w, error) ==
    LET w1 == [w EXCEPT !.console = w.console + 1] IN
    IF ~w.nav.sendBeacon THEN w1
    ELSE sendBeacon(w1, trackingEndPoint, [msg |-> error, stack |-> error])

\* an errorHandler that calls itself again when the transport refuses
errorHandlerRetries(w, error) ==
    LET w1 == [w EXCEPT !.console = w.console + 1] IN
    IF ~w.nav.sendBeacon THEN w1
    ELSE LET w2 == sendBeacon(w1, errorEndPoint, [msg |-> error, stack |-> error])
         IN IF w2.queuedOk THEN w2
            ELSE sendBeacon([w2 EXCEPT !.console = w2.console + 1], errorEndPoint,
                            [msg |-> error, stack |-> error])

\* track.js 150-157; error is the name of the error
errorHandler(w, error) ==
    LET w1 == [w EXCEPT !.console = w.console + 1] IN
    IF ~w.nav.sendBeacon THEN w1
    ELSE sendBeacon(w1, errorEndPoint, [msg |-> error, stack |-> error])

\* track.js 336-338
reportEdgeCase(w, caseName) == errorHandler(w, caseName)

\* item.trim().match(new RegExp('^' + cookieName(name) + '=(.+)$'))
generateCookieFilter(name, item) == item.name = cookieName(name) /\ item.value # <<>>

RECURSIVE BeforeEquals(_)
\* the part of a cookie value that .split('=')[1] keeps
BeforeEquals(v) ==
    IF v = <<>> \/ Head(v) = 61 THEN <<>> ELSE <<Head(v)>> \o BeforeEquals(Tail(v))

\* a setCookie that leaves a cookie it finds in the store its expiration time
setCookieKeepsExpiry(w, name, value, secondsToExpiration) ==
    IF w.ri.cookiesSupported = Bool(FALSE) THEN Ret(w, Null)
    ELSE LET hasExpires == Truthy(secondsToExpiration)
             old == w.jar[cookieName(name)]
             expirationTime == IF ~hasExpires THEN 0
                               ELSE IF Visible(old, w.now) /\ old.hasExpires
                                       /\ secondsToExpiration.n > 0
                               THEN old.expires
                               ELSE w.now + secondsToExpiration.n
         IN Ret(documentCookieSet(w, cookieName(name), valueEncoder(JsString(value)),
                                  hasExpires, expirationTime,
                                  Truthy(w.ri.useSecureCookie)),
                Undefined)

\* track.js 370-384; value and secondsToExpiration are JavaScript values
setCookie(w, name, value, secondsToExpiration) ==
    IF w.ri.cookiesSupported = Bool(FALSE) THEN Ret(w, Null)
    ELSE LET hasExpires == Truthy(secondsToExpiration)
             \* new Date() plus secondsToExpiration * 1000 ms, in the seconds
             \* toUTCString prints
             expirationTime == IF hasExpires THEN w.now + secondsToExpiration.n ELSE 0
         IN Ret(documentCookieSet(w, cookieName(name), valueEncoder(JsString(value)),
                                  hasExpires, expirationTime,
                                  Truthy(w.ri.useSecureCookie)),
                Undefined)

\* track.js 123-125
deleteCookie(w, name) == setCookie(w, name, Str(<<>>), Num(-2592000))

\* a getCookie without the test of runtimeInfo.cookiesSupported
getCookieUnguarded(w, name) ==
    LET matchingCookies ==
            SelectSeq(documentCookieItems(w), LAMBDA item : generateCookieFilter(name, item))
        wr == [w EXCEPT !.cookieUse.read = TRUE]
    IN IF Len(matchingCookies) = 0 THEN Ret(wr, Null)
       ELSE LET w1 == IF Len(matchingCookies) > 1
                      THEN reportEdgeCase(wr, "Edge Case: Duplicate cookie names")
                      ELSE wr
                decoded == valueDecoder(BeforeEquals(matchingCookies[1].value))
            IN IF decoded.ok THEN Ret(w1, Str(decoded.val))
               ELSE Throw(w1, decoded.err)

\* track.js 178-194
getCookie(w, name) ==
    IF w.ri.cookiesSupported = Bool(FALSE) THEN Ret(w, Null)
    ELSE LET matchingCookies ==
                SelectSeq(documentCookieItems(w), LAMBDA item : generateCookieFilter(name, item))
             wr == [w EXCEPT !.cookieUse.read = TRUE]
         IN IF Len(matchingCookies) = 0 THEN Ret(wr, Null)
            ELSE LET w1 == IF Len(matchingCookies) > 1
                           THEN reportEdgeCase(wr, "Edge Case: Duplicate cookie names")
                           ELSE wr
                     decoded == valueDecoder(BeforeEquals(matchingCookies[1].value))
                 IN IF decoded.ok THEN Ret(w1, Str(decoded.val))
                    ELSE Throw(w1, decoded.err)

\* a send that leaves the interval armed
immediateBeaconSendKeepsTimer(w) ==
    IF ~w.nav.sendBeacon THEN w
    ELSE IF Len(w.ri.dataQueue) = 0 THEN w
    ELSE LET dataPkt == [bid |-> w.ri.browserID, sid |-> w.ri.sessionID,
                         svc |-> w.ri.sessionViewCount, data |-> w.ri.dataQueue,
                         ts |-> w.ri.clock]
         IN sendBeacon([w EXCEPT !.ri.dataQueue = <<>>], trackingEndPoint, dataPkt)

\* a send that empties the queue only when the transport took the envelope
immediateBeaconSendRetries(w) ==
    IF ~w.nav.sendBeacon THEN w
    ELSE IF Len(w.ri.dataQueue) = 0 THEN w
    ELSE LET dataPkt == [bid |-> w.ri.browserID, sid |-> w.ri.sessionID,
                         svc |-> w.ri.sessionViewCount, data |-> w.ri.dataQueue,
                         ts |-> w.ri.clock]
             w1 == IF w.accept THEN [w EXCEPT !.ri.dataQueue = <<>>] ELSE w
             w2 == IF w1.ri.queueTimer # Null
                   THEN [w1 EXCEPT !.timers = {tm \in w1.timers : tm.id # w1.ri.queueTimer.n},
                                   !.ri.queueTimer = Null]
                   ELSE w1
         IN sendBeacon(w2, trackingEndPoint, dataPkt)

\* an immediateBeaconSend that takes the view count from the session cookie
immediateBeaconSendFromCookie(w) ==
    IF ~w.nav.sendBeacon THEN w
    ELSE IF Len(w.ri.dataQueue) = 0 THEN w
    ELSE LET c == getCookie(w, cookieSessionIDName)
             p == IF c.exc = "" /\ c.ret # Null THEN JSONparse(c.ret.s)
                  ELSE [ok |-> FALSE]
             svc == IF p.ok THEN GetProp(p.val, K_svc) ELSE [ok |-> FALSE]
             dataPkt == [bid |-> w.ri.browserID, sid |-> w.ri.sessionID,
                         svc |-> IF svc.ok THEN svc.val ELSE w.ri.sessionViewCount,
                         data |-> w.ri.dataQueue,
                         ts |-> w.ri.clock]
             w1 == [w EXCEPT !.ri.dataQueue = <<>>]
             w2 == IF w1.ri.queueTimer # Null
                   THEN [w1 EXCEPT !.timers = {tm \in w1.timers : tm.id # w1.ri.queueTimer.n},
                                   !.ri.queueTimer = Null]
                   ELSE w1
         IN sendBeacon(w2, trackingEndPoint, dataPkt)

\* an immediateBeaconSend without the test for an empty queue
immediateBeaconSendEmpty(w) ==
    IF ~w.nav.sendBeacon THEN w
    ELSE LET dataPkt == [bid |-> w.ri.browserID, sid |-> w.ri.sessionID,
                         svc |-> w.ri.sessionViewCount, data |-> w.ri.dataQueue,
                         ts |-> w.ri.clock]
             w1 == [w EXCEPT !.ri.dataQueue = <<>>]
             w2 == IF w1.ri.queueTimer # Null
                   THEN [w1 EXCEPT !.timers = {tm \in w1.timers : tm.id # w1.ri.queueTimer.n},
                                   !.ri.queueTimer = Null]
                   ELSE w1
         IN sendBeacon(w2, trackingEndPoint, dataPkt)

\* track.js 200-237
immediateBeaconSend(w) ==
    IF ~w.nav.sendBeacon THEN w
    ELSE IF Len(w.ri.dataQueue) = 0 THEN w
    ELSE LET dataPkt == [bid |-> w.ri.browserID, sid |-> w.ri.sessionID,
                         svc |-> w.ri.sessionViewCount, data |-> w.ri.dataQueue,
                         ts |-> w.ri.clock]
             w1 == [w EXCEPT !.ri.dataQueue = <<>>]
             w2 == IF w1.ri.queueTimer # Null
                   THEN [w1 EXCEPT !.timers = {tm \in w1.timers : tm.id # w1.ri.queueTimer.n},
                                   !.ri.queueTimer = Null]
                   ELSE w1
         IN sendBeacon(w2, trackingEndPoint, dataPkt)

\* runtimeInfo.dataQueue.push(data)
dataQueuePush(w, data) ==
    [w EXCEPT !.ri.dataQueue = Append(w.ri.dataQueue, data),
              !.pushed = Append(w.pushed, data)]

\* setInterval(immediateBeaconSend, ms): a new interval, its id returned
setInterval(w, ms) ==
    LET ids == {tm.id : tm \in w.timers}
        id == IF ids = {} THEN 1 ELSE 1 + (CHOOSE m \in ids : \A x \in ids : x <= m)
    IN Ret([w EXCEPT !.timers = w.timers \cup {[id |-> id, due |-> w.now + (ms \div 1000)]}],
           Num(id))

\* a queueData that puts the event at the head of the queue
queueDataUnshift(w, data) ==
    LET w1 == [w EXCEPT !.ri.dataQueue = <<data>> \o w.ri.dataQueue,
                        !.pushed = Append(w.pushed, data)]
    IN IF w1.ri.queueTimer = Null
       THEN LET t == setInterval(w1, dataReportInterval * 1000)
            IN [t.w EXCEPT !.ri.queueTimer = t.ret]
       ELSE w1

\* a queueData that arms no interval
queueDataNeverArms(w, data) == dataQueuePush(w, data)

\* a queueData that arms an interval with every event
queueDataAlwaysArms(w, data) ==
    LET w1 == dataQueuePush(w, data)
        t == setInterval(w1, dataReportInterval * 1000)
    IN [t.w EXCEPT !.ri.queueTimer = t.ret]

\* a queueData that arms the interval only behind an event already queued
queueDataArmsBehind(w, data) ==
    LET w1 == dataQueuePush(w, data) IN
    IF w.ri.dataQueue # <<>> /\ w1.ri.queueTimer = Null
    THEN LET t == setInterval(w1, dataReportInterval * 1000)
         IN [t.w EXCEPT !.ri.queueTimer = t.ret]
    ELSE w1

\* track.js 243-249
queueData(w, data) ==
    LET w1 == dataQueuePush(w, data) IN
    IF w1.ri.queueTimer = Null
    THEN LET t == setInterval(w1, dataReportInterval * 1000)
         IN [t.w EXCEPT !.ri.queueTimer = t.ret]
    ELSE w1

\* an event of the queue; the fields a type does not have are undefined
Event(type, ts, bfs, sfs, perfEntry) ==
    [type |-> type, ts |-> ts, bfs |-> bfs, sfs |-> sfs, perfEntry |-> perfEntry]

NoEntry == [entryType |-> "", name |-> "", startTime |-> 0, native |-> FALSE]

\* a queuePerformanceEntry that stamps the event with a new Date()
queuePerformanceEntryFreshClock(w, entry) ==
    LET perfEntry == [entry EXCEPT !.native = FALSE] IN
    IF perfEntry.entryType = "resource"
        /\ (perfEntry.name = errorEndPoint \/ perfEntry.name = trackingEndPoint)
    THEN w
    ELSE queueData(w, Event(VIEW_PERFORMANCE, Num(w.now * 1000), Undefined, Undefined,
                            perfEntry))

\* a queuePerformanceEntry that queues the records of the agent's own requests
queuePerformanceEntryUnfiltered(w, entry) ==
    LET perfEntry == [entry EXCEPT !.native = FALSE] IN
    queueData(w, Event(VIEW_PERFORMANCE, w.ri.clock, Undefined, Undefined, perfEntry))

\* track.js 255-273; JSON.parse(JSON.stringify(entry)) keeps the fields of the
\* record and drops the platform object
queuePerformanceEntry(w, entry) ==
    LET perfEntry == [entry EXCEPT !.native = FALSE] IN
    IF perfEntry.entryType = "resource"
        /\ (perfEntry.name = errorEndPoint \/ perfEntry.name = trackingEndPoint)
    THEN w
    ELSE queueData(w, Event(VIEW_PERFORMANCE, w.ri.clock, Undefined, Undefined, perfEntry))

RECURSIVE forEachEntry(_, _)
\* entries.forEach((entry) => { queuePerformanceEntry(entry); })
forEachEntry(w, entries) ==
    IF entries = <<>> THEN w
    ELSE forEachEntry(queuePerformanceEntry(w, Head(entries)), Tail(entries))

\* track.js 308-320; buffered is what performance.getEntries() returns
recordPerformanceMetrics(w, buffered) ==
    IF ~w.nav.PerformanceObserver THEN Throw(w, "TypeError")
    ELSE Ret(forEachEntry([w EXCEPT !.listeners.observer = TRUE], buffered), Undefined)

\* track.js 326-328
registerUnloadHandler(w) == [w EXCEPT !.listeners.unload = TRUE]

\* a reportPageView that leaves the view-start event to the interval
reportPageViewQueued(w) ==
    queueData(w, Event(VIEW_START, w.ri.clock, w.ri.browserFirstSeen,
                       w.ri.sessionFirstSeen, NoEntry))

\* track.js 346-359
reportPageView(w) ==
    immediateBeaconSend(
        dataQueuePush(w, Event(VIEW_START, w.ri.clock, w.ri.browserFirstSeen,
                               w.ri.sessionFirstSeen, NoEntry)))

\* a setupBrowserIdentity that stamps every load's clock as the first seen time
setupBrowserIdentityRestamps(w, rnd) ==
    LET bidCookieContents == getCookie(w, cookieBrowserIDName)
        w0 == bidCookieContents.w
        save(w2) == setCookie(w2, cookieBrowserIDName,
                        Str(JSONstringify([k \in {K_bid, K_ts} |->
                                IF k = K_bid THEN w2.ri.browserID ELSE w2.ri.browserFirstSeen],
                            <<K_bid, K_ts>>)),
                        Num(cookieBrowserExpiration))
    IN IF bidCookieContents.exc # "" THEN bidCookieContents
       ELSE IF bidCookieContents.ret = Null THEN
            save([w0 EXCEPT !.ri.browserFirstSeen = w0.ri.clock,
                            !.ri.browserID = IF Truthy(w0.ri.dntDetected)
                                             THEN Str(S_dnt) ELSE Num(rnd)])
       ELSE LET parsedCookie == JSONparse(bidCookieContents.ret.s) IN
            IF ~parsedCookie.ok
            THEN Throw(errorHandler(w0, "SyntaxError"), "ReferenceError")
            ELSE LET ts == GetProp(parsedCookie.val, K_ts)
                     bid == GetProp(parsedCookie.val, K_bid)
                 IN IF ~ts.ok THEN Throw(w0, "TypeError")
                    ELSE save([w0 EXCEPT !.ri.browserFirstSeen = w0.ri.clock,
                                         !.ri.browserID = bid.val])

\* track.js 390-425; rnd is what randomId() returns when it is called
setupBrowserIdentity(w, rnd) ==
    LET bidCookieContents == getCookie(w, cookieBrowserIDName)
        w0 == bidCookieContents.w
        save(w2) == setCookie(w2, cookieBrowserIDName,
                        Str(JSONstringify([k \in {K_bid, K_ts} |->
                                IF k = K_bid THEN w2.ri.browserID ELSE w2.ri.browserFirstSeen],
                            <<K_bid, K_ts>>)),
                        Num(cookieBrowserExpiration))
    IN IF bidCookieContents.exc # "" THEN bidCookieContents
       ELSE IF bidCookieContents.ret = Null THEN
            save([w0 EXCEPT !.ri.browserFirstSeen = w0.ri.clock,
                            !.ri.browserID = IF Truthy(w0.ri.dntDetected)
                                             THEN Str(S_dnt) ELSE Num(rnd)])
       ELSE LET parsedCookie == JSONparse(bidCookieContents.ret.s) IN
            IF ~parsedCookie.ok
            THEN \* catch: errorHandler(error), then the undeclared identifier
                 \* cookieBrowserIDName of line 407 is a ReferenceError
                 Throw(errorHandler(w0, "SyntaxError"), "ReferenceError")
            ELSE LET ts == GetProp(parsedCookie.val, K_ts)
                     bid == GetProp(parsedCookie.val, K_bid)
                 IN IF ~ts.ok THEN Throw(w0, "TypeError")
                    ELSE save([w0 EXCEPT !.ri.browserFirstSeen = ts.val,
                                         !.ri.browserID = bid.val])

\* a setupSessionIdentity that counts a view only when it starts a session
setupSessionIdentityCountsOnce(w, rnd) ==
    LET sidCookieContents == getCookie(w, cookieSessionIDName)
        w0 == sidCookieContents.w
        save(w3) ==
            setCookie(w3, cookieSessionIDName,
                    Str(JSONstringify([k \in {K_sid, K_svc, K_ts} |->
                            IF k = K_sid THEN w3.ri.sessionID
                            ELSE IF k = K_svc THEN w3.ri.sessionViewCount
                            ELSE w3.ri.sessionFirstSeen],
                        <<K_sid, K_svc, K_ts>>)),
                    Num(cookieSessionExpiration))
    IN IF sidCookieContents.exc # "" THEN sidCookieContents
       ELSE IF sidCookieContents.ret = Null THEN
            save([w0 EXCEPT !.ri.sessionFirstSeen = w0.ri.clock,
                            !.ri.sessionID = IF Truthy(w0.ri.dntDetected)
                                             THEN Str(S_dnt) ELSE Num(rnd),
                            !.ri.sessionViewCount = Num(1)])
       ELSE LET parsedCookie == JSONparse(sidCookieContents.ret.s) IN
            IF ~parsedCookie.ok
            THEN Throw(errorHandler(w0, "SyntaxError"), "ReferenceError")
            ELSE LET ts == GetProp(parsedCookie.val, K_ts)
                     sid == GetProp(parsedCookie.val, K_sid)
                     svc == GetProp(parsedCookie.val, K_svc)
                 IN IF ~ts.ok THEN Throw(w0, "TypeError")
                    ELSE save([w0 EXCEPT !.ri.sessionFirstSeen = ts.val,
                                         !.ri.sessionID = sid.val,
                                         !.ri.sessionViewCount = svc.val])

\* track.js 434-470: setupSessionIdentity from the return of its getCookie
\* call on, in the world w0 the statements run in
setupSessionIdentityFrom(w0, rnd, sidCookieContents) ==
    LET save(w2) ==
            LET w3 == [w2 EXCEPT !.ri.sessionViewCount = PlusOne(w2.ri.sessionViewCount)]
            IN setCookie(w3, cookieSessionIDName,
                    Str(JSONstringify([k \in {K_sid, K_svc, K_ts} |->
                            IF k = K_sid THEN w3.ri.sessionID
                            ELSE IF k = K_svc THEN w3.ri.sessionViewCount
                            ELSE w3.ri.sessionFirstSeen],
                        <<K_sid, K_svc, K_ts>>)),
                    Num(cookieSessionExpiration))
    IN IF sidCookieContents.exc # "" THEN Throw(w0, sidCookieContents.exc)
       ELSE IF sidCookieContents.ret = Null THEN
            save([w0 EXCEPT !.ri.sessionFirstSeen = w0.ri.clock,
                            !.ri.sessionID = IF Truthy(w0.ri.dntDetected)
                                             THEN Str(S_dnt) ELSE Num(rnd),
                            !.ri.sessionViewCount = Num(0)])
       ELSE LET parsedCookie == JSONparse(sidCookieContents.ret.s) IN
            IF ~parsedCookie.ok
            THEN \* catch: errorHandler(error), then the undeclared identifier
                 \* cookieSessionIDName of line 449 is a ReferenceError
                 Throw(errorHandler(w0, "SyntaxError"), "ReferenceError")
            ELSE LET ts == GetProp(parsedCookie.val, K_ts)
                     sid == GetProp(parsedCookie.val, K_sid)
                     svc == GetProp(parsedCookie.val, K_svc)
                 IN IF ~ts.ok THEN Throw(w0, "TypeError")
                    ELSE save([w0 EXCEPT !.ri.sessionFirstSeen = ts.val,
                                         !.ri.sessionID = sid.val,
                                         !.ri.sessionViewCount = svc.val])

\* a setupSessionIdentity that reports the page view before it resolves
setupSessionIdentityAfterReport(w, rnd) ==
    LET sidCookieContents == getCookie(w, cookieSessionIDName)
    IN setupSessionIdentityFrom(reportPageView(sidCookieContents.w), rnd,
                                [ret |-> sidCookieContents.ret, exc |-> sidCookieContents.exc])

\* track.js 431-471
setupSessionIdentity(w, rnd) ==
    LET sidCookieContents == getCookie(w, cookieSessionIDName)
    IN setupSessionIdentityFrom(sidCookieContents.w, rnd,
                                [ret |-> sidCookieContents.ret, exc |-> sidCookieContents.exc])

\* a probe that does not look at runtimeInfo.dntDetected
testCookieSupportIgnoringDNT(w, rnd) ==
    IF w.nav.cookieEnabled # Undefined THEN Ret(w, w.nav.cookieEnabled)
    ELSE LET testVal == Num(rnd)
             w1 == setCookie(w, cookieTestName, testVal, Undefined).w
             read == getCookie(w1, cookieTestName)
         IN IF read.exc # "" THEN read
            ELSE LET cookieSupport == StrictEquals(read.ret, testVal)
                 IN Ret(deleteCookie(read.w, cookieTestName).w, Bool(cookieSupport))

\* track.js 479-495
testCookieSupport(w, rnd) ==
    IF Truthy(w.ri.dntDetected) THEN Ret(w, Bool(FALSE))
    ELSE IF w.nav.cookieEnabled # Undefined THEN Ret(w, w.nav.cookieEnabled)
    ELSE LET testVal == Num(rnd)
             w1 == setCookie(w, cookieTestName, testVal, Undefined).w
             read == getCookie(w1, cookieTestName)
         IN IF read.exc # "" THEN read
            ELSE LET cookieSupport == StrictEquals(read.ret, testVal)
                 IN Ret(deleteCookie(read.w, cookieTestName).w, Bool(cookieSupport))

\* track.js 131-142, with dnt the value assigned to runtimeInfo.dntDetected
detectRuntimeConfigWith(w, rnd, dnt) ==
    LET w1 == [w EXCEPT !.ri.clock = Num(w.now * 1000),
                        !.ri.dntDetected = Bool(dnt),
                        !.ri.useSecureCookie = Bool(w.nav.protocol = "https:")]
        support == testCookieSupport(w1, rnd)
    IN IF support.exc # "" THEN support
       ELSE Ret([support.w EXCEPT !.ri.cookiesSupported = support.ret], Undefined)

\* track.js 131-142: line 137 assigns false
detectRuntimeConfig(w, rnd) == detectRuntimeConfigWith(w, rnd, FALSE)

\* track.js 136, the assignment the source holds as a comment until the
\* detection is re-enabled: navigator.doNotTrack === '1'
detectRuntimeConfigDNT(w, rnd) == detectRuntimeConfigWith(w, rnd, w.nav.doNotTrack = "1")

\* an unloadHandler that leaves the view-end event to the interval
unloadHandlerQueued(w) ==
    queueData(w, Event(VIEW_END, w.ri.clock, Undefined, Undefined, NoEntry))

\* an unloadHandler that puts the view-end event at the head of the queue
unloadHandlerUnshift(w) ==
    LET data == Event(VIEW_END, w.ri.clock, Undefined, Undefined, NoEntry)
    IN immediateBeaconSend([w EXCEPT !.ri.dataQueue = <<data>> \o w.ri.dataQueue,
                                     !.pushed = Append(w.pushed, data)])

\* track.js 501-508
unloadHandler(w) ==
    immediateBeaconSend(
        dataQueuePush(w, Event(VIEW_END, w.ri.clock, Undefined, Undefined, NoEntry)))

(***************************************************************************)
(* The platform a page runs on, and the cookies it may find.               *)
(***************************************************************************)
\* longest time the model lets pass, in seconds
Horizon == 2 * cookieBrowserExpiration

\* what a cookie another program left can hold: a text that is no JSON, a
\* token that is no base-64, the JSON texts null and 5
StrayValues ==
    {valueEncoder(<<120>>), <<33>>, valueEncoder(S_null), valueEncoder(<<53>>)}

StrayCookie(v) == [present |-> TRUE, value |-> v, hasExpires |-> FALSE, expires |-> 0,
                   secure |-> FALSE]

\* the cookie stores a first page load may find: empty, or one stray cookie
InitialJars ==
    {[n \in JarNames |-> NoCookie]}
    \cup {[n \in JarNames |-> IF n = m THEN StrayCookie(v) ELSE NoCookie] :
            m \in {cookieName(cookieBrowserIDName), cookieName(cookieSessionIDName)},
            v \in StrayValues}

\* navigator.doNotTrack, navigator.cookieEnabled (absent on some browsers),
\* whether the cookie store accepts cookies, navigator.sendBeacon,
\* window.PerformanceObserver, location.protocol
Platforms ==
    {p \in [doNotTrack : {"1", "unspecified"},
            cookieEnabled : {Bool(TRUE), Bool(FALSE), Undefined},
            cookiesWork : BOOLEAN,
            sendBeacon : BOOLEAN,
            PerformanceObserver : BOOLEAN,
            protocol : {"https:"},
            pathCookies : {<<>>}] :
        p.cookieEnabled # Undefined => p.cookieEnabled = Bool(p.cookiesWork)}

(***************************************************************************)
(* Bounds of the page model.                                               *)
(***************************************************************************)
\* page loads per tab
MaxLoads == 2
\* performance records the platform delivers to one page
MaxPerfEntries == 2
\* performance records in one observer callback or in the buffered drain
MaxBatch == 2
\* times the clock is advanced
MaxTicks == 2

\* what Math.floor(Math.random() * Math.pow(2, 34)) may return
RandomIds == {7, 1234}

\* the steps the clock is advanced by while no interval is pending: within
\* the session window, to its end, to the end of the browser window
TickSteps == {dataReportInterval, cookieSessionExpiration, cookieBrowserExpiration}

\* the performance records of the platform: a resource of the page, the
\* agent's own requests, and a user timing mark named like the endpoint
PerfKinds ==
    {[entryType |-> "resource", name |-> "http://127.0.0.1/site.css"],
     [entryType |-> "resource", name |-> trackingEndPoint],
     [entryType |-> "resource", name |-> errorEndPoint],
     [entryType |-> "mark", name |-> trackingEndPoint]}

KindLists(n) == UNION {[1..k -> PerfKinds] : k \in 0..n}

\* the records of a list of kinds, numbered on from the records seen so far
Entries(kinds, seen) ==
    [i \in 1..Len(kinds) |->
        [entryType |-> kinds[i].entryType, name |-> kinds[i].name,
         startTime |-> seen + i, native |-> TRUE]]

(***************************************************************************)
(* Initial states.                                                         *)
(***************************************************************************)
CodecIdle ==
    /\ codecValue = <<>>
    /\ codecToken = <<>>
    /\ codecResult = [ok |-> FALSE, val |-> <<>>, err |-> ""]
    /\ codecPc = "off"

PagesClosed ==
    /\ now = 0
    /\ ticks = 0
    /\ pc = [t \in Tabs |-> "unloaded"]
    /\ load = [t \in Tabs |-> 0]
    /\ runtimeInfo = [t \in Tabs |-> runtimeInfoInit]
    /\ timers = [t \in Tabs |-> {}]
    /\ listeners = [t \in Tabs |-> [unload |-> FALSE, observer |-> FALSE]]
    /\ perfSeen = [t \in Tabs |-> 0]
    /\ pushed = [t \in Tabs |-> <<>>]
    /\ console = [t \in Tabs |-> 0]
    /\ cookieUse = [t \in Tabs |-> [read |-> FALSE, written |-> FALSE]]
    /\ caught = [t \in Tabs |-> [exc |-> "", at |-> ""]]
    /\ beacons = [t \in Tabs |-> <<>>]
    /\ queuedOk = TRUE
    /\ sidCookieRead = [t \in Tabs |-> [ret |-> Null, exc |-> ""]]

Init ==
    /\ nav \in Platforms
    /\ jar \in InitialJars
    /\ PagesClosed
    /\ CodecIdle

(***************************************************************************)
(* Actions: the page of tab t.                                             *)
(***************************************************************************)
\* the state a handler leaves behind
Commit(t, w) ==
    /\ runtimeInfo' = [runtimeInfo EXCEPT ![t] = w.ri]
    /\ jar' = w.jar
    /\ timers' = [timers EXCEPT ![t] = w.timers]
    /\ listeners' = [listeners EXCEPT ![t] = w.listeners]
    /\ pushed' = [pushed EXCEPT ![t] = w.pushed]
    /\ console' = [console EXCEPT ![t] = w.console]
    /\ cookieUse' = [cookieUse EXCEPT ![t] = w.cookieUse]
    /\ beacons' = [beacons EXCEPT ![t] = w.net]
    /\ queuedOk' = w.queuedOk

\* track.js 553-562: one statement of the try block has run with result r;
\* an exception ends the block in catch(error) { errorHandler(error) }
Statement(t, r, next) ==
    IF r.exc = ""
    THEN /\ Commit(t, r.w)
         /\ pc' = [pc EXCEPT ![t] = next]
         /\ caught' = caught
    ELSE /\ Commit(t, errorHandler(r.w, r.exc))
         /\ pc' = [pc EXCEPT ![t] = "idle"]
         /\ caught' = [caught EXCEPT ![t] = [exc |-> r.exc, at |-> pc[t]]]

\* the browser loads a page in tab t: a new script context
Load(t) ==
    /\ pc[t] = "unloaded"
    /\ load[t] < MaxLoads
    /\ pc' = [pc EXCEPT ![t] = "detectRuntimeConfig"]
    /\ load' = [load EXCEPT ![t] = load[t] + 1]
    /\ runtimeInfo' = [runtimeInfo EXCEPT ![t] = runtimeInfoInit]
    /\ timers' = [timers EXCEPT ![t] = {}]
    /\ listeners' = [listeners EXCEPT ![t] = [unload |-> FALSE, observer |-> FALSE]]
    /\ perfSeen' = [perfSeen EXCEPT ![t] = 0]
    /\ pushed' = [pushed EXCEPT ![t] = <<>>]
    /\ console' = [console EXCEPT ![t] = 0]
    /\ cookieUse' = [cookieUse EXCEPT ![t] = [read |-> FALSE, written |-> FALSE]]
    /\ caught' = [caught EXCEPT ![t] = [exc |-> "", at |-> ""]]
    /\ beacons' = [beacons EXCEPT ![t] = <<>>]
    /\ UNCHANGED <<now, ticks, nav, jar, queuedOk>>
    /\ UNCHANGED <<codecVars, sidCookieRead>>

\* the first page the tab shows
FirstLoad(t) == load[t] = 0 /\ Load(t)

\* a later page of the visit
Reload(t) == load[t] > 0 /\ Load(t)

DetectRuntimeConfig(t) ==
    /\ pc[t] = "detectRuntimeConfig"
    /\ \E rnd \in RandomIds, accept \in BOOLEAN :
        Statement(t, detectRuntimeConfig(World(t, accept), rnd), "setupBrowserIdentity")
    /\ UNCHANGED <<now, ticks, nav, load, perfSeen>>
    /\ UNCHANGED <<codecVars, sidCookieRead>>

DetectRuntimeConfigDNT(t) ==
    /\ pc[t] = "detectRuntimeConfig"
    /\ \E rnd \in RandomIds, accept \in BOOLEAN :
        Statement(t, detectRuntimeConfigDNT(World(t, accept), rnd), "setupBrowserIdentity")
    /\ UNCHANGED <<now, ticks, nav, load, perfSeen>>
    /\ UNCHANGED <<codecVars, sidCookieRead>>

SetupBrowserIdentity(t) ==
    /\ pc[t] = "setupBrowserIdentity"
    /\ \E rnd \in RandomIds, accept \in BOOLEAN :
        Statement(t, setupBrowserIdentity(World(t, accept), rnd), "setupSessionIdentity")
    /\ UNCHANGED <<now, ticks, nav, load, perfSeen>>
    /\ UNCHANGED <<codecVars, sidCookieRead>>

SetupSessionIdentity(t) ==
    /\ pc[t] = "setupSessionIdentity"
    /\ \E rnd \in RandomIds, accept \in BOOLEAN :
        Statement(t, setupSessionIdentity(World(t, accept), rnd), "reportPageView")
    /\ UNCHANGED <<now, ticks, nav, load, perfSeen>>
    /\ UNCHANGED <<codecVars, sidCookieRead>>

ReportPageView(t) ==
    /\ pc[t] = "reportPageView"
    /\ \E accept \in BOOLEAN :
        Statement(t, Ret(reportPageView(World(t, accept)), Undefined), "registerUnloadHandler")
    /\ UNCHANGED <<now, ticks, nav, load, perfSeen>>
    /\ UNCHANGED <<codecVars, sidCookieRead>>

RegisterUnloadHandler(t) ==
    /\ pc[t] = "registerUnloadHandler"
    /\ Statement(t, Ret(registerUnloadHandler(World(t, TRUE)), Undefined),
                 "recordPerformanceMetrics")
    /\ UNCHANGED <<now, ticks, nav, load, perfSeen>>
    /\ UNCHANGED <<codecVars, sidCookieRead>>

\* the last statement of the try block, on a page whose platform has
\* buffered one of the lists of records
RecordPerformanceMetricsOf(t, lists) ==
    /\ pc[t] = "recordPerformanceMetrics"
    /\ \E kinds \in lists, accept \in BOOLEAN :
        /\ Statement(t, recordPerformanceMetrics(World(t, accept), Entries(kinds, 0)), "idle")
        /\ perfSeen' = [perfSeen EXCEPT ![t] = Len(kinds)]
    /\ UNCHANGED <<now, ticks, nav, load>>
    /\ UNCHANGED <<codecVars, sidCookieRead>>

RecordPerformanceMetrics(t) ==
    RecordPerformanceMetricsOf(t, KindLists(Min(MaxBatch, MaxPerfEntries)))

\* the same on a page that has loaded nothing the platform measures
RecordPerformanceMetricsQuiet(t) == RecordPerformanceMetricsOf(t, {<<>>})

\* the observer's callback (track.js 309-311) with a list of new records
ObserverCallback(t) ==
    /\ pc[t] = "idle"
    /\ listeners[t].observer
    /\ \E kinds \in KindLists(Min(MaxBatch, MaxPerfEntries - perfSeen[t])) :
        /\ kinds # <<>>
        /\ Commit(t, forEachEntry(World(t, TRUE), Entries(kinds, perfSeen[t])))
        /\ perfSeen' = [perfSeen EXCEPT ![t] = perfSeen[t] + Len(kinds)]
    /\ UNCHANGED <<now, ticks, nav, load, pc, caught>>
    /\ UNCHANGED <<codecVars, sidCookieRead>>

\* an interval of the page is due: its callback immediateBeaconSend runs, and
\* the interval, unless cleared, is due again one period later
TimerFires(t) ==
    /\ pc[t] = "idle"
    /\ \E tm \in timers[t], accept \in BOOLEAN :
        /\ tm.due <= now
        /\ LET w == immediateBeaconSend(World(t, accept))
               again == {[id |-> x.id,
                          due |-> IF x.id = tm.id THEN x.due + dataReportInterval ELSE x.due] :
                            x \in w.timers}
           IN Commit(t, [w EXCEPT !.timers = again])
    /\ UNCHANGED <<now, ticks, nav, load, pc, caught, perfSeen>>
    /\ UNCHANGED <<codecVars, sidCookieRead>>

\* the page of tab t is unloaded: the unload listener, if registered, runs;
\* nothing of the page runs afterwards
Unload(t) ==
    /\ pc[t] = "idle"
    /\ \E accept \in BOOLEAN :
        Commit(t, IF listeners[t].unload THEN unloadHandler(World(t, accept))
                  ELSE World(t, accept))
    /\ pc' = [pc EXCEPT ![t] = "unloaded"]
    /\ UNCHANGED <<now, ticks, nav, load, caught, perfSeen>>
    /\ UNCHANGED <<codecVars, sidCookieRead>>

\* the times at which an interval of some page that is shown is due
Dues == {tm.due : tm \in UNION {timers[t] : t \in {x \in Tabs : pc[x] = "idle"}}}

\* time passes while a page is shown and no script runs
Passes(later) ==
    /\ ticks < MaxTicks
    /\ \A t \in Tabs : pc[t] \in {"idle", "unloaded"}
    /\ \E t \in Tabs : pc[t] = "idle"
    /\ now' = later
    /\ ticks' = ticks + 1
    /\ UNCHANGED <<nav, jar, pc, load, runtimeInfo, timers, listeners, perfSeen, pushed,
                   console, cookieUse, caught, beacons, queuedOk>>
    /\ UNCHANGED <<codecVars, sidCookieRead>>

\* up to the moment the next interval is due
IntervalElapses ==
    /\ Dues # {}
    /\ \A d \in Dues : d > now
    /\ Passes(CHOOSE d \in Dues : \A e \in Dues : d <= e)

\* by one of the steps, when no interval is pending
TimePassesBy(steps) ==
    /\ Dues = {}
    /\ \E step \in steps : now + step <= Horizon /\ Passes(now + step)

\* one more report interval
TimePasses == TimePassesBy({dataReportInterval})

\* the time between two pages of a visit
TimePassesLong == TimePassesBy(TickSteps)

\* one page view in one tab
Next ==
    \/ FirstLoad(1)
    \/ DetectRuntimeConfig(1)
    \/ SetupBrowserIdentity(1)
    \/ SetupSessionIdentity(1)
    \/ ReportPageView(1)
    \/ RegisterUnloadHandler(1)
    \/ RecordPerformanceMetrics(1)
    \/ ObserverCallback(1)
    \/ TimerFires(1)
    \/ Unload(1)
    \/ IntervalElapses
    \/ TimePasses

Spec == Init /\ [][Next]_vars

\* a visit: page after page in one tab, on pages that load nothing measured
NextVisits ==
    \/ FirstLoad(1)
    \/ Reload(1)
    \/ DetectRuntimeConfig(1)
    \/ SetupBrowserIdentity(1)
    \/ SetupSessionIdentity(1)
    \/ ReportPageView(1)
    \/ RegisterUnloadHandler(1)
    \/ RecordPerformanceMetricsQuiet(1)
    \/ Unload(1)
    \/ TimePassesLong

SpecVisits == Init /\ [][NextVisits]_vars

\* one page view in one tab of the program with the detection of
\* navigator.doNotTrack (track.js 136) in place
NextDNT ==
    \/ FirstLoad(1)
    \/ DetectRuntimeConfigDNT(1)
    \/ SetupBrowserIdentity(1)
    \/ SetupSessionIdentity(1)
    \/ ReportPageView(1)
    \/ RegisterUnloadHandler(1)
    \/ RecordPerformanceMetrics(1)
    \/ ObserverCallback(1)
    \/ TimerFires(1)
    \/ Unload(1)
    \/ IntervalElapses
    \/ TimePasses

SpecDNT == Init /\ [][NextDNT]_vars

(***************************************************************************)
(* The codec on its own: a string is encoded, the token is decoded.        *)
(***************************************************************************)
\* '%', '4', '>', '?', and characters of two, three and four UTF-8 bytes
CodecAlphabet == {37, 52, 62, 63, 233, 3244, 128512}

CodecStrings == UNION {[1..k -> CodecAlphabet] : k \in 0..MaxStrLen}

InitCodec ==
    /\ codecValue \in CodecStrings
    /\ codecToken = <<>>
    /\ codecResult = [ok |-> FALSE, val |-> <<>>, err |-> ""]
    /\ codecPc = "input"
    /\ nav = CHOOSE p \in Platforms : TRUE
    /\ jar = [n \in JarNames |-> NoCookie]
    /\ PagesClosed

CodecEncode ==
    /\ codecPc = "input"
    /\ codecToken' = valueEncoder(codecValue)
    /\ codecPc' = "encoded"
    /\ UNCHANGED <<codecValue, codecResult>>
    /\ UNCHANGED progVars

CodecDecode ==
    /\ codecPc = "encoded"
    /\ codecResult' = valueDecoder(codecToken)
    /\ codecPc' = "decoded"
    /\ UNCHANGED <<codecValue, codecToken>>
    /\ UNCHANGED progVars

NextCodec == CodecEncode \/ CodecDecode

SpecCodec == InitCodec /\ [][NextCodec]_vars

(***************************************************************************)
(* What the properties speak about.                                        *)
(***************************************************************************)
\* the tracking envelopes the page of tab t has submitted, in order
Envelopes(t) == SelectSeq(beacons[t], LAMBDA b : b.url = trackingEndPoint)

\* the events of these envelopes, in order
Sent(t) == FlattenSeq([i \in 1..Len(Envelopes(t)) |-> Envelopes(t)[i].pkt.data])

\* the beacons a step adds for tab t
NewBeacons(t) == SubSeq(beacons'[t], Len(beacons[t]) + 1, Len(beacons'[t]))
NewEnvelopes(t) == SelectSeq(NewBeacons(t), LAMBDA b : b.url = trackingEndPoint)

\* a step of the page of tab t that is not its load
PageActs(t) == load'[t] = load[t] /\ Len(beacons'[t]) >= Len(beacons[t])

\* both identities of the page of tab t have been resolved
Resolved(t) ==
    \/ pc[t] \in {"reportPageView", "registerUnloadHandler", "recordPerformanceMetrics"}
    \/ /\ pc[t] \in {"idle", "unloaded"}
       /\ load[t] > 0
       /\ caught[t].at \notin {"detectRuntimeConfig", "setupBrowserIdentity",
                               "setupSessionIdentity"}

NoDuplicates(s) == \A i, j \in 1..Len(s) : s[i] = s[j] => i = j

(***************************************************************************)
(* The properties.                                                         *)
(***************************************************************************)
\* C1: while runtimeInfo.dntDetected is true, the page load writes no cookie
\* (neither the probe cookie of testCookieSupport nor an identity cookie), and
\* once both identities are resolved browserID and sessionID are 'dnt', as
\* are the ids of every envelope.  (Checked under SpecDNT, where line 136 of
\* detectRuntimeConfig sets dntDetected.)
DntDetectedWritesNoCookie ==
    \A t \in Tabs : Truthy(runtimeInfo[t].dntDetected) =>
        /\ ~cookieUse[t].written
        /\ Resolved(t) => /\ runtimeInfo[t].browserID = Str(S_dnt)
                          /\ runtimeInfo[t].sessionID = Str(S_dnt)
        /\ \A i \in 1..Len(Envelopes(t)) :
                /\ Envelopes(t)[i].pkt.bid = Str(S_dnt)
                /\ Envelopes(t)[i].pkt.sid = Str(S_dnt)

\* a page with DNT detected, on a browser that leaves cookieEnabled
\* undefined, stores cookies and holds an earlier cookie, has resolved its
\* identities, reported them and been unloaded
DntDetectedWitness ==
    /\ Truthy(runtimeInfo[1].dntDetected)
    /\ nav.cookieEnabled = Undefined /\ nav.cookiesWork
    /\ \E n \in JarNames : jar[n] # NoCookie
    /\ pc[1] = "unloaded" /\ Resolved(1)
    /\ runtimeInfo[1].browserID = Str(S_dnt)
    /\ Len(Envelopes(1)) >= 2

\* C2: on a browser whose navigator.doNotTrack is '1' no run of the startup
\* sequence reads or writes a cookie, and the resolved and the reported ids
\* are 'dnt'.  (Violated by the program: line 137 sets dntDetected to false.)
DoNotTrackHonoured ==
    \A t \in Tabs : (nav.doNotTrack = "1" /\ load[t] > 0) =>
        /\ ~cookieUse[t].read /\ ~cookieUse[t].written
        /\ Resolved(t) => /\ runtimeInfo[t].browserID = Str(S_dnt)
                          /\ runtimeInfo[t].sessionID = Str(S_dnt)
        /\ \A i \in 1..Len(Envelopes(t)) :
                /\ Envelopes(t)[i].pkt.bid = Str(S_dnt)
                /\ Envelopes(t)[i].pkt.sid = Str(S_dnt)

\* the events a step of the page of tab t puts on its queue
NewlyPushed(t) == SubSeq(pushed'[t], Len(pushed[t]) + 1, Len(pushed'[t]))

\* no event of the queue of tab t is in an envelope already submitted
QueueHoldsNothingSent(t) ==
    \A i \in 1..Len(runtimeInfo[t].dataQueue) : \A j \in 1..Len(Sent(t)) :
        runtimeInfo[t].dataQueue[i] # Sent(t)[j]

\* C4: every dispatch is all-or-nothing: a step in which immediateBeaconSend
\* submits an envelope submits exactly one, which holds the entire queue (the
\* events queued before the step and the event the step itself pushes), and
\* leaves the queue empty, runtimeInfo.queueTimer null and no interval armed;
\* in no state does the queue hold an event that is in a submitted envelope.
AllOrNothingDispatch ==
    [][\A t \in Tabs :
        /\ (PageActs(t) /\ NewEnvelopes(t) # <<>>) =>
              /\ Len(NewEnvelopes(t)) = 1
              /\ NewEnvelopes(t)[1].pkt.data = runtimeInfo[t].dataQueue \o NewlyPushed(t)
              /\ runtimeInfo'[t].dataQueue = <<>>
              /\ runtimeInfo'[t].queueTimer = Null
              /\ timers'[t] = {}
        /\ QueueHoldsNothingSent(t)
        /\ QueueHoldsNothingSent(t)']_vars

\* the interval has flushed a queue of two events in one envelope, after
\* the envelope of the view-start event, and nothing is left armed
AllOrNothingWitness ==
    /\ pc[1] = "idle"
    /\ Len(Envelopes(1)) = 2
    /\ Len(Envelopes(1)[2].pkt.data) = 2
    /\ runtimeInfo[1].dataQueue = <<>>
    /\ runtimeInfo[1].queueTimer = Null
    /\ timers[1] = {}
    /\ now >= dataReportInterval

\* C5: delivery is at-most-once: no event is in two envelopes, twice in one
\* envelope, or both in an envelope and in the queue, whether or not the
\* transport accepted the envelopes.
AtMostOnceDelivery ==
    \A t \in Tabs : NoDuplicates(Sent(t) \o runtimeInfo[t].dataQueue)

\* the transport has refused the latest envelope, no error was reported, and
\* the page has since queued further events: the refused ones are gone
AtMostOnceWitness ==
    /\ ~queuedOk
    /\ caught[1].exc = "" /\ console[1] = 0
    /\ pc[1] = "idle"
    /\ Len(Envelopes(1)) >= 2
    /\ runtimeInfo[1].dataQueue # <<>>

\* C6: the events of the envelopes of one page load, in the order of the
\* envelopes, followed by the events still queued, are exactly the events in
\* the order they were enqueued: nothing is reordered, duplicated or merged,
\* whatever the interleaving of observer callbacks, timer ticks and unload.
EnvelopesKeepEnqueueOrder ==
    \A t \in Tabs : Sent(t) \o runtimeInfo[t].dataQueue = pushed[t]

\* a page has been unloaded after three envelopes that hold at least four
\* events, one of the envelopes with several events, and nothing is queued
EnvelopesKeepEnqueueOrderWitness ==
    /\ pc[1] = "unloaded"
    /\ Len(Envelopes(1)) >= 3
    /\ Len(pushed[1]) >= 4
    /\ \E i \in 1..Len(Envelopes(1)) : Len(Envelopes(1)[i].pkt.data) >= 2
    /\ runtimeInfo[1].dataQueue = <<>>
    /\ Sent(1) = pushed[1]

\* the step is a callback of an interval of the page of tab t
TimerTick(t) ==
    /\ pc[t] = "idle" /\ pc'[t] = "idle"
    /\ now' = now /\ perfSeen'[t] = perfSeen[t]
    /\ \/ timers'[t] # timers[t]
       \/ beacons'[t] # beacons[t]
       \/ runtimeInfo'[t] # runtimeInfo[t]

\* C7: batch flush on timer, on a platform with beacon transport: a step in
\* which queueData puts an event on the empty queue while no timer is armed
\* arms one interval, due one report interval later; when that interval
\* fires with just this event queued, the tick is at the due time, submits
\* exactly one envelope holding exactly that event, and leaves the queue
\* empty and the timer disarmed; while no interval is armed, time passing
\* submits nothing.
BatchFlushOnTimer ==
    [][\A t \in Tabs :
        /\ ( /\ PageActs(t)
             /\ runtimeInfo[t].dataQueue = <<>> /\ runtimeInfo[t].queueTimer = Null
             /\ Len(runtimeInfo'[t].dataQueue) = 1
             /\ runtimeInfo'[t].dataQueue[1].type = VIEW_PERFORMANCE )
            => /\ runtimeInfo'[t].queueTimer # Null
               /\ timers'[t] = {[id |-> runtimeInfo'[t].queueTimer.n,
                                 due |-> now + dataReportInterval]}
               /\ NewBeacons(t) = <<>>
        /\ ( /\ TimerTick(t) /\ nav.sendBeacon
             /\ Len(runtimeInfo[t].dataQueue) = 1 )
            => /\ \E tm \in timers[t] : tm.due = now
               /\ Len(NewBeacons(t)) = 1
               /\ NewBeacons(t)[1].url = trackingEndPoint
               /\ NewBeacons(t)[1].pkt.data = runtimeInfo[t].dataQueue
               /\ runtimeInfo'[t].dataQueue = <<>>
               /\ runtimeInfo'[t].queueTimer = Null
               /\ timers'[t] = {}
        /\ ( /\ timers[t] = {} /\ load'[t] = load[t]
             /\ (now' # now \/ TimerTick(t)) )
            => beacons'[t] = beacons[t] ]_vars

\* one performance event was queued on its own, the interval has flushed it
\* in an envelope of its own, and two report intervals have passed since
\* the page was loaded without anything more being sent
BatchFlushOnTimerWitness ==
    /\ pc[1] = "idle" /\ nav.sendBeacon
    /\ ticks = 2 /\ now = 2 * dataReportInterval
    /\ Len(beacons[1]) = 2 /\ Len(Envelopes(1)) = 2
    /\ Len(Envelopes(1)[2].pkt.data) = 1
    /\ Envelopes(1)[2].pkt.data[1].type = VIEW_PERFORMANCE
    /\ runtimeInfo[1].dataQueue = <<>>
    /\ runtimeInfo[1].queueTimer = Null
    /\ timers[1] = {}

\* C8: unload flush, on a platform with beacon transport: when the page is
\* unloaded with events still queued, the unload step submits exactly one
\* envelope, which holds those events in their order followed by the
\* view-end event, and leaves the queue empty, runtimeInfo.queueTimer null
\* and no interval armed, so that nothing is left that could flush or
\* submit afterwards.
UnloadFlush ==
    [][\A t \in Tabs :
        /\ ( /\ pc[t] = "idle" /\ pc'[t] = "unloaded"
             /\ nav.sendBeacon
             /\ runtimeInfo[t].dataQueue # <<>> )
            => /\ Len(NewBeacons(t)) = 1
               /\ NewBeacons(t)[1].url = trackingEndPoint
               /\ LET data == NewBeacons(t)[1].pkt.data
                      queued == runtimeInfo[t].dataQueue
                  IN /\ Len(data) = Len(queued) + 1
                     /\ SubSeq(data, 1, Len(queued)) = queued
                     /\ Last(data).type = VIEW_END
               /\ runtimeInfo'[t].dataQueue = <<>>
               /\ runtimeInfo'[t].queueTimer = Null
               /\ timers'[t] = {} ]_vars

\* a page was unloaded while two performance events were queued and an
\* interval was armed: its last envelope holds the two and the view-end
\* event, and no interval is armed any more
UnloadFlushWitness ==
    /\ pc[1] = "unloaded" /\ load[1] = 1 /\ nav.sendBeacon
    /\ Len(Envelopes(1)) = 2
    /\ LET data == Last(Envelopes(1)).pkt.data
       IN /\ Len(data) = 3
          /\ data[1].type = VIEW_PERFORMANCE /\ data[2].type = VIEW_PERFORMANCE
          /\ data[1].perfEntry.startTime < data[2].perfEntry.startTime
          /\ data[3].type = VIEW_END
    /\ runtimeInfo[1].dataQueue = <<>>
    /\ timers[1] = {}

\* C9: on a platform with beacon transport the view-start event is flushed
\* at startup: no envelope is submitted and no interval armed before
\* reportPageView has run; when it has run the page has submitted exactly one
\* envelope, which holds just the view-start event, stamped with the load's
\* clock, and nothing is queued or armed; the first envelope of a page load
\* is always this one.
ViewStartFlushedAtStartup ==
    \A t \in Tabs :
        /\ pc[t] \in {"detectRuntimeConfig", "setupBrowserIdentity",
                      "setupSessionIdentity", "reportPageView"}
            => Envelopes(t) = <<>> /\ timers[t] = {}
        /\ (pc[t] = "registerUnloadHandler" /\ nav.sendBeacon)
            => /\ Len(Envelopes(t)) = 1
               /\ runtimeInfo[t].dataQueue = <<>>
               /\ runtimeInfo[t].queueTimer = Null
               /\ timers[t] = {}
        /\ Len(Envelopes(t)) >= 1
            => /\ Len(Envelopes(t)[1].pkt.data) = 1
               /\ Envelopes(t)[1].pkt.data[1].type = VIEW_START
               /\ Envelopes(t)[1].pkt.data[1].ts = runtimeInfo[t].clock
               /\ Envelopes(t)[1].pkt.data[1] = pushed[t][1]

\* reportPageView has just run on a page with fresh identities, and
\* the envelope with the view-start event is with the transport
ViewStartFlushedWitness ==
    /\ pc[1] = "registerUnloadHandler" /\ nav.sendBeacon
    /\ cookieUse[1].written
    /\ Len(Envelopes(1)) = 1
    /\ Envelopes(1)[1].pkt.bid \in {Num(r) : r \in RandomIds}
    /\ Envelopes(1)[1].pkt.data[1].type = VIEW_START

\* the cookie the agent writes for browser id I first seen at T0
BrowserCookieValue(I, T0) ==
    valueEncoder(JSONstringify([k \in {K_bid, K_ts} |-> IF k = K_bid THEN I ELSE T0],
                               <<K_bid, K_ts>>))

\* C10: identity persistence: when setupBrowserIdentity runs while the
\* browser shows a valid browser-identity cookie with id I and first seen
\* time T0, it completes with browserID = I and browserFirstSeen = T0 (not
\* the clock of the load), and the cookie then holds the same payload and
\* expires cookieBrowserExpiration seconds after this load.
\* (Checked under SpecVisits.)
IdentityPersists ==
    [][\A t \in Tabs :
        LET c == jar[cookieName(cookieBrowserIDName)]
            d == valueDecoder(c.value)
            p == JSONparse(d.val)
            I == p.val.o[K_bid]
            T0 == p.val.o[K_ts]
        IN  ( /\ pc[t] = "setupBrowserIdentity" /\ pc'[t] # pc[t]
              /\ Visible(c, now)
              /\ d.ok /\ p.ok /\ p.val.t = "object"
              /\ DOMAIN p.val.o = {K_bid, K_ts}
              /\ I.t = "number" /\ T0.t = "number"
              /\ c.value = BrowserCookieValue(I, T0) )
            => /\ pc'[t] = "setupSessionIdentity"
               /\ runtimeInfo'[t].browserID = I
               /\ runtimeInfo'[t].browserFirstSeen = T0
               /\ LET c2 == jar'[cookieName(cookieBrowserIDName)]
                  IN /\ c2.present
                     /\ c2.value = c.value
                     /\ c2.hasExpires
                     /\ c2.expires = now + cookieBrowserExpiration ]_vars

\* on a later load, some time after the first, the browser identity has been
\* resolved to the id and the first seen time of the first load, and the
\* cookie now expires later than the first load set it to
IdentityPersistsWitness ==
    /\ load[1] >= 2 /\ pc[1] = "setupSessionIdentity"
    /\ runtimeInfo[1].browserID \in {Num(r) : r \in RandomIds}
    /\ runtimeInfo[1].browserFirstSeen = Num(0)
    /\ runtimeInfo[1].clock.n > 0
    /\ LET c == jar[cookieName(cookieBrowserIDName)]
       IN /\ c.present
          /\ c.value = BrowserCookieValue(runtimeInfo[1].browserID, Num(0))
          /\ c.expires = now + cookieBrowserExpiration
          /\ c.expires > cookieBrowserExpiration

\* the UTF-8 bytes of a string of code points
UTF8Bytes(s) == FlattenSeq([i \in 1..Len(s) |-> UTF8(s[i])])

\* C3: for every string v, decoding the token valueEncoder(v) succeeds and
\* gives back v; the token is the standard Base64 of the UTF-8 bytes of v
\* with '+' and '/' replaced by '-' and '_' and the padding stripped, and the
\* padding the decoder restores is exactly the padding the encoder stripped.
\* (Checked under SpecCodec.)
CodecRoundTrip ==
    /\ codecPc \in {"encoded", "decoded"} =>
          LET std == btoa(UTF8Bytes(codecValue))
          IN /\ codecToken = StripTrailing(ReplaceChar(ReplaceChar(std, 43, 45), 47, 95), 61)
             /\ ReplaceChar(ReplaceChar(restoredBase64(codecToken), 45, 43), 95, 47) = std
    /\ codecPc = "decoded" =>
          codecResult = [ok |-> TRUE, val |-> codecValue, err |-> ""]

\* a string with a character of several bytes has been encoded to a token
\* that has lost its padding and holds '-' or '_', and has been decoded
CodecRoundTripWitness ==
    /\ codecPc = "decoded"
    /\ \E i \in 1..Len(codecValue) : codecValue[i] > 127
    /\ \E i \in 1..Len(codecToken) : codecToken[i] \in {45, 95}
    /\ Len(codecToken) % 4 # 0
    /\ codecResult.ok

\* the cookie the agent writes for session id S with view count k, first
\* seen at T0
SessionCookieValue(S, k, T0) ==
    valueEncoder(JSONstringify([x \in {K_sid, K_svc, K_ts} |->
                                    IF x = K_sid THEN S ELSE IF x = K_svc THEN k ELSE T0],
                               <<K_sid, K_svc, K_ts>>))

\* the browser shows a cookie of this name that the codec decodes to a text
\* JSON.parse rejects
CorruptCookie(name) ==
    LET c == jar[cookieName(name)]
        d == valueDecoder(c.value)
    IN Visible(c, now) /\ c.value # <<>> /\ d.ok /\ ~JSONparse(d.val).ok

\* C11: a corrupt cookie self-heals: when setupBrowserIdentity (or
\* setupSessionIdentity) runs with cookies supported and finds a cookie whose
\* decoded payload JSON.parse rejects, it reports exactly one error, ends
\* with a freshly generated identity (a random id, first seen at the load's
\* clock, view count 1 for the session) stored in a new cookie, and startup
\* goes on with the next statement.  (Violated by the program: lines 407 and
\* 449 name an undeclared identifier.)
CorruptCookieSelfHeals ==
    [][\A t \in Tabs :
        /\ ( /\ pc[t] = "setupBrowserIdentity" /\ pc'[t] # pc[t]
             /\ runtimeInfo[t].cookiesSupported = Bool(TRUE)
             /\ CorruptCookie(cookieBrowserIDName) )
            => /\ pc'[t] = "setupSessionIdentity"
               /\ console'[t] = console[t] + 1
               /\ runtimeInfo'[t].browserID \in {Num(r) : r \in RandomIds}
               /\ runtimeInfo'[t].browserFirstSeen = runtimeInfo[t].clock
               /\ jar'[cookieName(cookieBrowserIDName)].value
                    = BrowserCookieValue(runtimeInfo'[t].browserID, runtimeInfo[t].clock)
        /\ ( /\ pc[t] = "setupSessionIdentity" /\ pc'[t] # pc[t]
             /\ runtimeInfo[t].cookiesSupported = Bool(TRUE)
             /\ CorruptCookie(cookieSessionIDName) )
            => /\ pc'[t] = "reportPageView"
               /\ console'[t] = console[t] + 1
               /\ runtimeInfo'[t].sessionID \in {Num(r) : r \in RandomIds}
               /\ runtimeInfo'[t].sessionFirstSeen = runtimeInfo[t].clock
               /\ runtimeInfo'[t].sessionViewCount = Num(1)
               /\ jar'[cookieName(cookieSessionIDName)].value
                    = SessionCookieValue(runtimeInfo'[t].sessionID, Num(1),
                                         runtimeInfo[t].clock) ]_vars

\* the session that began with the first page of the visit is still in use
\* on the page of tab t: then the page's view count is the number of the load
SessionCountIsLoad(t) ==
    ( /\ Resolved(t) /\ pc[t] # "unloaded"
      /\ runtimeInfo[t].cookiesSupported = Bool(TRUE)
      /\ runtimeInfo[t].sessionFirstSeen = Num(0)
      /\ runtimeInfo[t].sessionID \in {Num(r) : r \in RandomIds} )
    => runtimeInfo[t].sessionViewCount = Num(load[t])

\* C12: the session view count increments: with cookies supported, a
\* setupSessionIdentity that finds the session cookie {sid: S, svc: k, ts: T0}
\* still valid resolves session id S, first seen T0 and view count k + 1 and
\* stores k + 1 with a new two hour window; one that finds no cookie resolves
\* view count 1; so the k-th load of a session that began with the first
\* page resolves view count k.  (Checked under SpecVisits.)
SessionViewCountIncrements ==
    [][\A t \in Tabs :
        LET c == jar[cookieName(cookieSessionIDName)]
            d == valueDecoder(c.value)
            p == JSONparse(d.val)
            S == p.val.o[K_sid]
            k == p.val.o[K_svc]
            T0 == p.val.o[K_ts]
            c2 == jar'[cookieName(cookieSessionIDName)]
            resolves == /\ pc[t] = "setupSessionIdentity" /\ pc'[t] # pc[t]
                        /\ runtimeInfo[t].cookiesSupported = Bool(TRUE)
        IN /\ ( /\ resolves
                /\ Visible(c, now)
                /\ d.ok /\ p.ok /\ p.val.t = "object"
                /\ DOMAIN p.val.o = {K_sid, K_svc, K_ts}
                /\ S.t = "number" /\ k.t = "number" /\ T0.t = "number"
                /\ c.value = SessionCookieValue(S, k, T0) )
              => /\ pc'[t] = "reportPageView"
                 /\ runtimeInfo'[t].sessionID = S
                 /\ runtimeInfo'[t].sessionFirstSeen = T0
                 /\ runtimeInfo'[t].sessionViewCount = Num(k.n + 1)
                 /\ c2.present /\ c2.hasExpires
                 /\ c2.value = SessionCookieValue(S, Num(k.n + 1), T0)
                 /\ c2.expires = now + cookieSessionExpiration
           /\ (resolves /\ ~Visible(c, now))
              => /\ pc'[t] = "reportPageView"
                 /\ runtimeInfo'[t].sessionViewCount = Num(1)
                 /\ runtimeInfo'[t].sessionFirstSeen = runtimeInfo[t].clock
                 /\ c2.value = SessionCookieValue(runtimeInfo'[t].sessionID, Num(1),
                                                  runtimeInfo[t].clock)
           /\ SessionCountIsLoad(t)' ]_vars

\* the second page of a visit, loaded a while after the first and within the
\* session window, has resolved the session of the first page with view
\* count 2, and the cookie holds that count
SessionViewCountWitness ==
    /\ load[1] = 2 /\ pc[1] = "reportPageView"
    /\ now > 0 /\ now < cookieSessionExpiration
    /\ runtimeInfo[1].sessionFirstSeen = Num(0)
    /\ runtimeInfo[1].sessionViewCount = Num(2)
    /\ jar[cookieName(cookieSessionIDName)].value
            = SessionCookieValue(runtimeInfo[1].sessionID, Num(2), Num(0))

\* C13: no feedback loop: no performance record, of any entry type, whose
\* name is the tracking endpoint or the error endpoint is ever put on the
\* queue, neither by the observer callback nor by the drain of the buffered
\* records.  (Violated by the program: line 263 filters entries of type
\* 'resource' only.)
NoEndpointRecordQueued ==
    \A t \in Tabs : \A i \in 1..Len(pushed[t]) :
        pushed[t][i].type = VIEW_PERFORMANCE
            => pushed[t][i].perfEntry.name \notin {trackingEndPoint, errorEndPoint}

(***************************************************************************)
(* Identity resolution called again within one page load.                  *)
(***************************************************************************)
\* calls of one setup function per page load beyond the first
MaxResolves == 2

\* setupBrowserIdentity() once more, after it has returned
SetupBrowserIdentityAgain(t) ==
    /\ pc[t] = "setupSessionIdentity"
    /\ \E rnd \in RandomIds, accept \in BOOLEAN :
        Statement(t, setupBrowserIdentity(World(t, accept), rnd), "setupSessionIdentity")
    /\ UNCHANGED <<now, ticks, nav, load, perfSeen>>
    /\ UNCHANGED <<codecVars, sidCookieRead>>

\* setupSessionIdentity() once more, after it has returned
SetupSessionIdentityAgain(t) ==
    /\ pc[t] = "reportPageView"
    /\ runtimeInfo[t].sessionViewCount.t = "number"
            => runtimeInfo[t].sessionViewCount.n <= MaxResolves
    /\ \E rnd \in RandomIds, accept \in BOOLEAN :
        Statement(t, setupSessionIdentity(World(t, accept), rnd), "reportPageView")
    /\ UNCHANGED <<now, ticks, nav, load, perfSeen>>
    /\ UNCHANGED <<codecVars, sidCookieRead>>

NextResolveTwice ==
    \/ FirstLoad(1)
    \/ DetectRuntimeConfig(1)
    \/ SetupBrowserIdentity(1)
    \/ SetupBrowserIdentityAgain(1)
    \/ SetupSessionIdentity(1)
    \/ SetupSessionIdentityAgain(1)
    \/ ReportPageView(1)
    \/ RegisterUnloadHandler(1)
    \/ RecordPerformanceMetricsQuiet(1)
    \/ Unload(1)

SpecResolveTwice == Init /\ [][NextResolveTwice]_vars

\* the identity the page of tab t has resolved
Identity(t) ==
    <<runtimeInfo[t].browserID, runtimeInfo[t].browserFirstSeen,
      runtimeInfo[t].sessionID, runtimeInfo[t].sessionFirstSeen,
      runtimeInfo[t].sessionViewCount>>

\* C14: identity resolution is idempotent per page load: a further call of
\* setupBrowserIdentity or setupSessionIdentity in the same page load, after
\* the first has returned, leaves browserID, browserFirstSeen, sessionID,
\* sessionFirstSeen and sessionViewCount as they were.  (Violated by the
\* program: line 460 counts every call, and without cookies every call draws
\* a new random id.)
IdentityResolutionIdempotent ==
    [][\A t \in Tabs :
        ( /\ pc[t] \in {"setupSessionIdentity", "reportPageView"}
          /\ pc'[t] = pc[t] /\ load'[t] = load[t] )
        => Identity(t)' = Identity(t) ]_vars

\* every event the page of tab t has queued, and every envelope it has
\* submitted, carries the clock of runtimeInfo
EventsCarryClock(t) ==
    /\ \A i \in 1..Len(pushed[t]) : pushed[t][i].ts = runtimeInfo[t].clock
    /\ \A i \in 1..Len(Envelopes(t)) :
        /\ Envelopes(t)[i].pkt.ts = runtimeInfo[t].clock
        /\ \A j \in 1..Len(Envelopes(t)[i].pkt.data) :
                Envelopes(t)[i].pkt.data[j].ts = runtimeInfo[t].clock

NewErrorReports(t) == SelectSeq(NewBeacons(t), LAMBDA b : b.url = errorEndPoint)

\* C16: each call of errorHandler (counted by its console.error) makes at
\* most one transmission: one to the error endpoint when the platform has
\* sendBeacon, none otherwise, never one to the tracking endpoint; the
\* payload holds msg and stack only; and a step in which errorHandler runs
\* leaves the event queue, the flush timer, the identity fields and the
\* cookies as they were.
ErrorHandlerFrame ==
    [][\A t \in Tabs : PageActs(t) =>
        LET calls == console'[t] - console[t] IN
        /\ calls >= 0
        /\ Len(NewErrorReports(t)) = IF nav.sendBeacon THEN calls ELSE 0
        /\ \A i \in 1..Len(NewErrorReports(t)) :
                DOMAIN NewErrorReports(t)[i].pkt = {"msg", "stack"}
        /\ \A i \in 1..Len(NewEnvelopes(t)) :
                DOMAIN NewEnvelopes(t)[i].pkt = {"bid", "sid", "svc", "data", "ts"}
        /\ calls >= 1 =>
                /\ NewEnvelopes(t) = <<>>
                /\ runtimeInfo'[t] = runtimeInfo[t]
                /\ timers'[t] = timers[t]
                /\ jar' = jar ]_vars

\* recordPerformanceMetrics has thrown on a page whose identities are
\* resolved and stored: the error report followed the view-start envelope
\* to the other endpoint, and queue, timer, identity and cookies are intact
ErrorHandlerFrameWitness ==
    /\ pc[1] = "idle" /\ nav.sendBeacon
    /\ caught[1] = [exc |-> "TypeError", at |-> "recordPerformanceMetrics"]
    /\ console[1] = 1
    /\ Len(beacons[1]) = 2
    /\ beacons[1][1].url = trackingEndPoint
    /\ beacons[1][2].url = errorEndPoint
    /\ runtimeInfo[1].browserID \in {Num(r) : r \in RandomIds}
    /\ jar[cookieName(cookieBrowserIDName)].present
    /\ jar[cookieName(cookieSessionIDName)].present

\* the catch sites a step of tab t reaches: the top-level catch (553-562),
\* and before it the catch of an identity step (404-408, 446-450), whose
\* own failure is what the top-level catch then receives
CatchSitesReached(t) ==
    IF caught'[t] = caught[t] THEN 0
    ELSE IF caught'[t].exc = "ReferenceError" THEN 2 ELSE 1

RemainingStepsStillRun ==
    \A t \in Tabs :
        (pc[t] = "idle" /\ caught[t].exc # "") =>
            /\ console[t] >= 1
            /\ pushed[t] # <<>>
            /\ listeners[t].unload
            /\ nav.PerformanceObserver => listeners[t].observer

\* the store holds no cookie but those the program itself has written
NoStrayCookie == \A n \in JarNames : jar[n].present => jar[n].hasExpires

\* the error reports tab t has sent
ErrorReports(t) == SelectSeq(beacons[t], LAMBDA b : b.url = errorEndPoint)

\* C19 (as stated): on a platform that lacks cookies, the performance
\* observer or the beacon transport, and with nothing else wrong, no error
\* is reported (neither logged nor sent) and the startup steps run to
\* completion: once the page is idle the view-start event has been queued
\* and the unload handler is registered.
MissingCapabilitySilent ==
    \A t \in Tabs :
        ( /\ ~nav.cookiesWork \/ ~nav.sendBeacon \/ ~nav.PerformanceObserver
          /\ NoStrayCookie ) =>
            /\ console[t] = 0
            /\ caught[t].exc = ""
            /\ ErrorReports(t) = <<>>
            /\ pc[t] = "idle" => pushed[t] # <<>> /\ listeners[t].unload

\* the same for cookies and the beacon transport alone
MissingCookiesOrBeaconSilent ==
    \A t \in Tabs :
        ( /\ ~nav.cookiesWork \/ ~nav.sendBeacon
          /\ nav.PerformanceObserver
          /\ NoStrayCookie ) =>
            /\ console[t] = 0
            /\ caught[t].exc = ""
            /\ ErrorReports(t) = <<>>
            /\ pc[t] = "idle" => pushed[t] # <<>> /\ listeners[t].unload

(***************************************************************************)
(* The cookie store round trip (track.js 796-799):                         *)
(*   detectRuntimeConfig(); setCookie('utf8_test', v, 30);                 *)
(*   console.log(getCookie('utf8_test'));                                  *)
(* run by the page of tab 1 on a store that holds other cookies.           *)
(***************************************************************************)
\* the window the test passes to setCookie, in seconds
utf8TestWindow == 30

\* a cookie named like the test's, set under a longer path than "/":
\* document.cookie lists it before the cookie setCookie writes
SameNamePathCookie == [name |-> cookieName(utf8TestName), value |-> valueEncoder(<<52>>)]

\* browsers with a working cookie store, with and without navigator.cookieEnabled
StorePlatforms ==
    {[doNotTrack |-> "unspecified", cookieEnabled |-> ce, cookiesWork |-> TRUE,
      sendBeacon |-> TRUE, PerformanceObserver |-> TRUE, protocol |-> "https:",
      pathCookies |-> pcs] :
        ce \in {Bool(TRUE), Undefined}, pcs \in {<<>>, <<SameNamePathCookie>>}}

\* stores holding no cookie, or one cookie under another name
StoreJars ==
    {j \in InitialJars : \A n \in JarNames : j[n].present => j[n].value = valueEncoder(<<120>>)}

InitStore ==
    /\ codecValue \in CodecStrings \ {<<>>}
    /\ codecToken = <<>>
    /\ codecResult = [ok |-> FALSE, val |-> <<>>, err |-> ""]
    /\ codecPc = "utf8_test"
    /\ nav \in StorePlatforms
    /\ jar \in StoreJars
    /\ PagesClosed

\* a statement outside any try block has run with result r: an exception
\* ends the script and reaches globalErrorHandler (track.js 567-573)
TopLevel(t, r, next) ==
    IF r.exc = ""
    THEN /\ Commit(t, r.w)
         /\ pc' = [pc EXCEPT ![t] = next]
         /\ caught' = caught
    ELSE /\ Commit(t, [r.w EXCEPT !.console = r.w.console + 1])
         /\ pc' = [pc EXCEPT ![t] = "idle"]
         /\ caught' = [caught EXCEPT ![t] = [exc |-> r.exc, at |-> pc[t]]]

Utf8TestDetect ==
    /\ codecPc = "utf8_test"
    /\ pc[1] = "detectRuntimeConfig"
    /\ \E rnd \in RandomIds, accept \in BOOLEAN :
        TopLevel(1, detectRuntimeConfig(World(1, accept), rnd), "setCookie")
    /\ UNCHANGED <<now, ticks, nav, load, perfSeen>>
    /\ UNCHANGED <<codecVars, sidCookieRead>>

Utf8TestSetCookie ==
    /\ pc[1] = "setCookie"
    /\ \E accept \in BOOLEAN :
        TopLevel(1, setCookie(World(1, accept), utf8TestName, Str(codecValue),
                              Num(utf8TestWindow)), "getCookie")
    /\ codecToken' = jar'[cookieName(utf8TestName)].value
    /\ UNCHANGED <<now, ticks, nav, load, perfSeen>>
    /\ UNCHANGED <<codecValue, codecResult, codecPc, sidCookieRead>>

Utf8TestGetCookie ==
    /\ pc[1] = "getCookie"
    /\ \E accept \in BOOLEAN :
        LET r == getCookie(World(1, accept), utf8TestName) IN
        /\ TopLevel(1, r, "idle")
        /\ codecResult' = [ok |-> r.exc = "" /\ r.ret.t = "string",
                           val |-> IF r.exc = "" /\ r.ret.t = "string" THEN r.ret.s
                                   ELSE <<>>,
                           err |-> r.exc]
    /\ codecPc' = "read"
    /\ UNCHANGED <<now, ticks, nav, load, perfSeen>>
    /\ UNCHANGED <<codecValue, codecToken, sidCookieRead>>

NextStore == FirstLoad(1) \/ Utf8TestDetect \/ Utf8TestSetCookie \/ Utf8TestGetCookie

SpecStore == InitStore /\ [][NextStore]_vars

\* C20 (as stated): with cookies supported, getCookie(name) right after
\* setCookie(name, v, 30) returns exactly v, for every non-empty string v
\* and whatever other cookies the store holds.
StoreRoundTrip ==
    (codecPc = "read" /\ runtimeInfo[1].cookiesSupported = Bool(TRUE)) =>
        codecResult = [ok |-> TRUE, val |-> codecValue, err |-> ""]

\* the same when no other cookie of the store has the name
StoreRoundTripUniqueName ==
    (codecPc = "read" /\ runtimeInfo[1].cookiesSupported = Bool(TRUE)
        /\ nav.pathCookies = <<>>) =>
        /\ codecResult = [ok |-> TRUE, val |-> codecValue, err |-> ""]
        /\ console[1] = 0

\* the page of tab t has armed at most one interval, the one
\* runtimeInfo.queueTimer names, and only over a queue that holds an event
OneTimerOverQueue(t) ==
    /\ Cardinality(timers[t]) <= 1
    /\ runtimeInfo[t].queueTimer = Null <=> timers[t] = {}
    /\ \A tm \in timers[t] : runtimeInfo[t].queueTimer = Num(tm.id)
    /\ timers[t] # {} => runtimeInfo[t].dataQueue # <<>>

\* C21: in every state at most one flush interval is armed, and an armed
\* interval implies a non-empty queue; every step that drains the queue
\* leaves no interval armed and runtimeInfo.queueTimer null; and an interval
\* is armed only by a step in which queueData has queued a performance event.
SingleFlushTimer ==
    [][\A t \in Tabs :
        /\ OneTimerOverQueue(t)'
        /\ (PageActs(t) /\ runtimeInfo[t].dataQueue # <<>>
                /\ runtimeInfo'[t].dataQueue = <<>>) =>
              /\ timers'[t] = {}
              /\ runtimeInfo'[t].queueTimer = Null
        /\ (PageActs(t) /\ timers[t] = {} /\ timers'[t] # {}) =>
              /\ NewlyPushed(t) # <<>>
              /\ \A i \in 1..Len(NewlyPushed(t)) : NewlyPushed(t)[i].type = VIEW_PERFORMANCE
              /\ \A tm \in timers'[t] : tm.due = now + dataReportInterval ]_vars

\* an interval flush has drained the queue and disarmed the timer, and a later
\* performance record has armed a second interval over a queue of one event
SingleFlushTimerWitness ==
    /\ pc[1] = "idle" /\ nav.sendBeacon
    /\ Len(Envelopes(1)) = 2
    /\ Len(runtimeInfo[1].dataQueue) = 1
    /\ Cardinality(timers[1]) = 1
    /\ \A tm \in timers[1] : tm.due = now + dataReportInterval /\ now >= dataReportInterval

(***************************************************************************)
(* A page that goes quiet: the platform delivers the records of the page,  *)
(* then only the records its own beacon requests cause.                    *)
(***************************************************************************)
\* the resource record the n-th sendBeacon request of the page causes
OwnTrafficKind(t, n) == [entryType |-> "resource", name |-> beacons[t][n].url]

\* the observer's callback (track.js 309-311) with the record of one of the
\* agent's own requests, once the platform has delivered the page's records:
\* each request causes one record
OwnTrafficCallback(t) ==
    /\ pc[t] = "idle"
    /\ listeners[t].observer
    /\ perfSeen[t] >= MaxPerfEntries
    /\ perfSeen[t] < MaxPerfEntries + Len(beacons[t])
    /\ Commit(t, forEachEntry(World(t, TRUE),
                    Entries(<<OwnTrafficKind(t, perfSeen[t] - MaxPerfEntries + 1)>>,
                            perfSeen[t])))
    /\ perfSeen' = [perfSeen EXCEPT ![t] = perfSeen[t] + 1]
    /\ UNCHANGED <<now, ticks, nav, load, pc, caught>>
    /\ UNCHANGED <<codecVars, sidCookieRead>>

\* time passes up to the moment the next interval is due; every interval
\* armed over a page record gets its turn
QuietIntervalElapses ==
    /\ Dues # {}
    /\ \A d \in Dues : d > now
    /\ ticks < MaxPerfEntries + MaxTicks
    /\ \E t \in Tabs : pc[t] = "idle"
    /\ now' = CHOOSE d \in Dues : \A e \in Dues : d <= e
    /\ ticks' = ticks + 1
    /\ UNCHANGED <<nav, jar, pc, load, runtimeInfo, timers, listeners, perfSeen, pushed,
                   console, cookieUse, caught, beacons, queuedOk>>
    /\ UNCHANGED <<codecVars, sidCookieRead>>

InitQuiet ==
    /\ nav \in {p \in Platforms : p.doNotTrack = "unspecified"}
    /\ jar = [n \in JarNames |-> NoCookie]
    /\ PagesClosed
    /\ CodecIdle

\* the script of the page, run to its end
Startup(t) ==
    \/ FirstLoad(t)
    \/ DetectRuntimeConfig(t)
    \/ SetupBrowserIdentity(t)
    \/ SetupSessionIdentity(t)
    \/ ReportPageView(t)
    \/ RegisterUnloadHandler(t)
    \/ RecordPerformanceMetrics(t)

NextQuiet ==
    \/ Startup(1)
    \/ ObserverCallback(1)
    \/ OwnTrafficCallback(1)
    \/ TimerFires(1)
    \/ Unload(1)
    \/ QuietIntervalElapses

\* the script, once started, runs to its end without suspension (the page
\* has one thread); time passes, and a due interval fires; the platform owes
\* the page no record and no unload
SpecQuiet ==
    /\ InitQuiet
    /\ [][NextQuiet]_vars
    /\ []<>(pc[1] \in {"idle", "unloaded"})
    /\ WF_vars(TimerFires(1))
    /\ WF_vars(QuietIntervalElapses)

\* nothing is queued and no interval is armed
Quiescent(t) ==
    /\ runtimeInfo[t].dataQueue = <<>>
    /\ runtimeInfo[t].queueTimer = Null
    /\ timers[t] = {}

\* a step of the shown page of tab t in which no record of the page is
\* delivered: time passing, a timer tick, a record of the agent's own request
OwnTrafficOnly(t) ==
    /\ pc[t] = "idle" /\ pc'[t] = "idle"
    /\ perfSeen[t] >= MaxPerfEntries

QuietClockSuffices ==
    (nav.sendBeacon /\ timers[1] # {}) => ticks < MaxPerfEntries + MaxTicks

(***************************************************************************)
(* Two tabs of one browser: two pages of the site run side by side on one  *)
(* cookie store.  Each page has its own thread; between the getCookie call *)
(* of setupSessionIdentity and its setCookie call the other page may run.  *)
(***************************************************************************)
\* the browser on which the tabs run: cookies, beacon transport and the
\* performance observer are there
TabsPlatform ==
    [doNotTrack |-> "unspecified", cookieEnabled |-> Bool(TRUE), cookiesWork |-> TRUE,
     sendBeacon |-> TRUE, PerformanceObserver |-> TRUE, protocol |-> "https:",
     pathCookies |-> <<>>]

\* the store an earlier page view at time 0 has left: browser 7, session 7
\* with view count 1
VisitedJar ==
    [n \in JarNames |->
        IF n = cookieName(cookieBrowserIDName)
        THEN [present |-> TRUE, value |-> BrowserCookieValue(Num(7), Num(0)),
              hasExpires |-> TRUE, expires |-> cookieBrowserExpiration, secure |-> TRUE]
        ELSE IF n = cookieName(cookieSessionIDName)
        THEN [present |-> TRUE, value |-> SessionCookieValue(Num(7), Num(1), Num(0)),
              hasExpires |-> TRUE, expires |-> cookieSessionExpiration, secure |-> TRUE]
        ELSE NoCookie]

InitTabs ==
    /\ nav = TabsPlatform
    /\ jar \in {[n \in JarNames |-> NoCookie], VisitedJar}
    /\ PagesClosed
    /\ CodecIdle

\* track.js 433: setupSessionIdentity reads the session cookie
SessionCookieRead(t) ==
    /\ pc[t] = "setupSessionIdentity"
    /\ \E accept \in BOOLEAN :
        LET r == getCookie(World(t, accept), cookieSessionIDName) IN
        /\ Commit(t, r.w)
        /\ sidCookieRead' = [sidCookieRead EXCEPT ![t] = [ret |-> r.ret, exc |-> r.exc]]
    /\ pc' = [pc EXCEPT ![t] = "setupSessionIdentity:434"]
    /\ UNCHANGED <<now, ticks, nav, load, perfSeen, caught>>
    /\ UNCHANGED codecVars

\* track.js 435-470: the rest of setupSessionIdentity, with what it has read
SessionCookieWrite(t) ==
    /\ pc[t] = "setupSessionIdentity:434"
    /\ \E rnd \in RandomIds, accept \in BOOLEAN :
        Statement(t, setupSessionIdentityFrom(World(t, accept), rnd, sidCookieRead[t]),
                  "reportPageView")
    /\ UNCHANGED <<now, ticks, nav, load, perfSeen>>
    /\ UNCHANGED <<codecVars, sidCookieRead>>

\* a step of the page of tab t
PageOfTab(t) ==
    \/ FirstLoad(t)
    \/ Reload(t)
    \/ DetectRuntimeConfig(t)
    \/ SetupBrowserIdentity(t)
    \/ SessionCookieRead(t)
    \/ SessionCookieWrite(t)
    \/ ReportPageView(t)
    \/ RegisterUnloadHandler(t)
    \/ RecordPerformanceMetricsQuiet(t)
    \/ Unload(t)

NextTabs == \E t \in Tabs : PageOfTab(t)

SpecTabs == InitTabs /\ [][NextTabs]_vars

\* every envelope the page of tab t has submitted carries the identity held
\* in the page's runtimeInfo
EnvelopesCarryIdentity(t) ==
    \A i \in 1..Len(Envelopes(t)) :
        /\ Envelopes(t)[i].pkt.bid = runtimeInfo[t].browserID
        /\ Envelopes(t)[i].pkt.sid = runtimeInfo[t].sessionID
        /\ Envelopes(t)[i].pkt.svc = runtimeInfo[t].sessionViewCount

\* C23: all envelopes of one page load carry the browserID, sessionID and
\* sessionViewCount the page resolved at its startup: the envelopes carry the
\* fields of runtimeInfo, and once both identities are resolved no step, of
\* this page or of the page in the other tab, changes these fields, whatever
\* the other page writes to the identity cookies.
EnvelopesKeepPageIdentity ==
    [][\A t \in Tabs :
        /\ EnvelopesCarryIdentity(t)'
        /\ (Resolved(t) /\ load'[t] = load[t]) => Identity(t)' = Identity(t) ]_vars

\* the page of tab 1 has sent its view-start and view-end envelopes, both
\* with view count 2, while the page of tab 2 has moved the stored count to 3
EnvelopesKeepPageIdentityWitness ==
    /\ pc[1] = "unloaded" /\ load[1] = 1
    /\ Len(Envelopes(1)) = 2
    /\ Envelopes(1)[1].pkt.svc = Num(2) /\ Envelopes(1)[2].pkt.svc = Num(2)
    /\ Envelopes(1)[1].pkt.sid = Num(7) /\ Envelopes(1)[2].pkt.bid = Num(7)
    /\ pc[2] = "idle"
    /\ runtimeInfo[2].sessionViewCount = Num(3)
    /\ jar[cookieName(cookieSessionIDName)].value = SessionCookieValue(Num(7), Num(3), Num(0))

\* both pages are past identity resolution and count views of the session
\* of one cookie: the same session id, first seen at the same time, with
\* view counts that continue a stored count
ShareSessionCookie(t1, t2) ==
    /\ t1 # t2
    /\ Resolved(t1) /\ Resolved(t2)
    /\ pc[t1] # "unloaded" /\ pc[t2] # "unloaded"
    /\ runtimeInfo[t1].sessionID = runtimeInfo[t2].sessionID
    /\ runtimeInfo[t1].sessionFirstSeen = runtimeInfo[t2].sessionFirstSeen
    /\ runtimeInfo[t1].sessionViewCount.t = "number"
    /\ runtimeInfo[t2].sessionViewCount.t = "number"
    /\ runtimeInfo[t1].sessionViewCount.n >= 2
    /\ runtimeInfo[t2].sessionViewCount.n >= 2

\* C30 (as stated): two page loads that share one valid session cookie never
\* resolve the same sessionViewCount, also when the read and the write of the
\* cookie in the two tabs interleave.
DistinctViewCounts ==
    \A t1, t2 \in Tabs :
        ShareSessionCookie(t1, t2) =>
            runtimeInfo[t1].sessionViewCount # runtimeInfo[t2].sessionViewCount

\* the cookie holds a browser identity as the program writes it
HoldsBrowserIdentity(c) ==
    LET d == valueDecoder(c.value)
        p == JSONparse(d.val)
    IN /\ c.present /\ c.hasExpires
       /\ d.ok /\ p.ok /\ p.val.t = "object"
       /\ DOMAIN p.val.o = {K_bid, K_ts}
       /\ p.val.o[K_bid].t = "number" /\ p.val.o[K_ts].t = "number"

\* the cookie holds a session identity as the program writes it
HoldsSessionIdentity(c) ==
    LET d == valueDecoder(c.value)
        p == JSONparse(d.val)
    IN /\ c.present /\ c.hasExpires
       /\ d.ok /\ p.ok /\ p.val.t = "object"
       /\ DOMAIN p.val.o = {K_sid, K_svc, K_ts}
       /\ p.val.o[K_sid].t = "number" /\ p.val.o[K_svc].t = "number"
       /\ p.val.o[K_ts].t = "number"

\* C24: sliding expiration: with cookies supported, every page load that
\* resolves the identities rewrites the browser cookie to expire
\* cookieBrowserExpiration (10 days) and the session cookie to expire
\* cookieSessionExpiration (2 hours) after the load; a load less than 10 days
\* after the load that wrote the browser identity keeps the browser id and
\* first seen time; a load less than 2 hours after the load that wrote the
\* session identity keeps the session id and first seen time and counts one
\* more view; a load 2 hours or more (and less than 10 days) after it gets a
\* new session, first seen at this load, with view count 1, while the
\* browser's first seen time stays that of an earlier load.
\* (Checked under SpecVisits.)
SlidingExpiration ==
    [][\A t \in Tabs :
        LET b == jar[cookieName(cookieBrowserIDName)]
            s == jar[cookieName(cookieSessionIDName)]
            b2 == jar'[cookieName(cookieBrowserIDName)]
            s2 == jar'[cookieName(cookieSessionIDName)]
            supported == runtimeInfo[t].cookiesSupported = Bool(TRUE)
            browserStep == pc[t] = "setupBrowserIdentity" /\ pc'[t] # pc[t] /\ supported
            sessionStep == pc[t] = "setupSessionIdentity" /\ pc'[t] # pc[t] /\ supported
            \* the time of the load that wrote a cookie of the program
            browserWritten == b.expires - cookieBrowserExpiration
            sessionWritten == s.expires - cookieSessionExpiration
        IN /\ (browserStep /\ pc'[t] = "setupSessionIdentity") =>
                /\ b2.present /\ b2.hasExpires
                /\ b2.expires = now + cookieBrowserExpiration
           /\ (sessionStep /\ pc'[t] = "reportPageView") =>
                /\ s2.present /\ s2.hasExpires
                /\ s2.expires = now + cookieSessionExpiration
           /\ (browserStep /\ HoldsBrowserIdentity(b)
                    /\ now - browserWritten < cookieBrowserExpiration) =>
                /\ pc'[t] = "setupSessionIdentity"
                /\ b.value = BrowserCookieValue(runtimeInfo'[t].browserID,
                                                runtimeInfo'[t].browserFirstSeen)
                /\ b2.value = b.value
           /\ (sessionStep /\ HoldsSessionIdentity(s)
                    /\ now - sessionWritten < cookieSessionExpiration) =>
                /\ pc'[t] = "reportPageView"
                /\ runtimeInfo'[t].sessionViewCount.t = "number"
                /\ s.value = SessionCookieValue(runtimeInfo'[t].sessionID,
                                     Num(runtimeInfo'[t].sessionViewCount.n - 1),
                                     runtimeInfo'[t].sessionFirstSeen)
           /\ (sessionStep /\ HoldsSessionIdentity(s) /\ HoldsBrowserIdentity(b)
                    /\ now - sessionWritten >= cookieSessionExpiration
                    /\ now - sessionWritten < cookieBrowserExpiration) =>
                /\ pc'[t] = "reportPageView"
                /\ runtimeInfo'[t].sessionViewCount = Num(1)
                /\ runtimeInfo'[t].sessionFirstSeen = runtimeInfo[t].clock
                /\ runtimeInfo'[t].sessionID \in {Num(r) : r \in RandomIds}
                /\ runtimeInfo[t].browserFirstSeen.t = "number"
                /\ runtimeInfo[t].browserFirstSeen.n <= sessionWritten * 1000 ]_vars

\* the second page of a visit is loaded 2 hours and 30 seconds after the
\* first: the browser identity of the first load with a new 10 day window, a
\* new session with view count 1 and a new 2 hour window
SlidingExpirationWitness ==
    /\ load[1] = 2 /\ pc[1] = "reportPageView"
    /\ now = cookieSessionExpiration + dataReportInterval
    /\ runtimeInfo[1].browserFirstSeen = Num(0)
    /\ runtimeInfo[1].sessionFirstSeen = Num(now * 1000)
    /\ runtimeInfo[1].sessionViewCount = Num(1)
    /\ jar[cookieName(cookieBrowserIDName)].expires = now + cookieBrowserExpiration
    /\ jar[cookieName(cookieSessionIDName)].expires = now + cookieSessionExpiration

\* the identity fields of runtimeInfo of the page of tab t have been assigned
IdentityAssigned(t) ==
    /\ runtimeInfo[t].browserID # Null
    /\ runtimeInfo[t].sessionID # Null
    /\ runtimeInfo[t].sessionViewCount # Null

\* C25: no event is queued and no tracking envelope is submitted before both
\* identities are resolved: a page that has queued an event or submitted an
\* envelope is past setupSessionIdentity with the identity fields assigned,
\* no envelope carries a null browserID, sessionID or sessionViewCount, and
\* the statements up to setupSessionIdentity queue and submit nothing.
NothingBeforeIdentity ==
    [][\A t \in Tabs :
        /\ (pushed'[t] # <<>> \/ Envelopes(t)' # <<>>) =>
                (Resolved(t)' /\ IdentityAssigned(t)')
        /\ \A i \in 1..Len(Envelopes(t)') :
                /\ Envelopes(t)'[i].pkt.bid # Null
                /\ Envelopes(t)'[i].pkt.sid # Null
                /\ Envelopes(t)'[i].pkt.svc # Null
        /\ pc[t] \in {"detectRuntimeConfig", "setupBrowserIdentity", "setupSessionIdentity"} =>
                (pushed'[t] = <<>> /\ Envelopes(t)' = <<>>) ]_vars

\* both identities resolved to numbers, then two envelopes, both with them
NothingBeforeIdentityWitness ==
    /\ pc[1] = "idle" /\ Len(Envelopes(1)) = 2
    /\ \A i \in 1..2 :
        /\ Envelopes(1)[i].pkt.bid \in {Num(r) : r \in RandomIds}
        /\ Envelopes(1)[i].pkt.sid \in {Num(r) : r \in RandomIds}
        /\ Envelopes(1)[i].pkt.svc = Num(1)
    /\ Len(pushed[1]) >= 2

(***************************************************************************)
(* immediateBeaconSend called once more, at any moment of a shown page:    *)
(* the program itself never calls it on an empty queue (reportPageView and *)
(* unloadHandler push first, the interval is cleared with the queue).      *)
(***************************************************************************)
InitFlush ==
    /\ nav \in {p \in Platforms : p.doNotTrack = "unspecified"}
    /\ jar = [n \in JarNames |-> NoCookie]
    /\ PagesClosed
    /\ CodecIdle

\* track.js 200-237: one call of immediateBeaconSend() from outside the
\* program's own calls; codecPc records that it was made
ImmediateBeaconSendCall(t) ==
    /\ pc[t] = "idle"
    /\ codecPc = "off"
    /\ codecPc' = "flush"
    /\ \E accept \in BOOLEAN : Commit(t, immediateBeaconSend(World(t, accept)))
    /\ UNCHANGED <<now, ticks, nav, load, pc, caught, perfSeen>>
    /\ UNCHANGED <<codecValue, codecToken, codecResult, sidCookieRead>>

NextFlush ==
    \/ Startup(1)
    \/ ObserverCallback(1)
    \/ TimerFires(1)
    \/ ImmediateBeaconSendCall(1)
    \/ Unload(1)
    \/ IntervalElapses

SpecFlush == InitFlush /\ [][NextFlush]_vars

\* C26: a flush with an empty queue is a no-op: no envelope with an empty
\* event list is ever submitted, and a call of immediateBeaconSend on an
\* empty queue leaves the queue, runtimeInfo.queueTimer, the intervals and
\* the transport (no sendBeacon call, its last result) as they were.
FlushOfEmptyQueueIsNoOp ==
    [][\A t \in Tabs :
        /\ \A i \in 1..Len(Envelopes(t)') : Envelopes(t)'[i].pkt.data # <<>>
        /\ ( /\ codecPc = "off" /\ codecPc' = "flush"
             /\ pc[t] = "idle"
             /\ runtimeInfo[t].dataQueue = <<>> ) =>
                /\ runtimeInfo'[t] = runtimeInfo[t]
                /\ timers'[t] = timers[t]
                /\ beacons'[t] = beacons[t]
                /\ queuedOk' = queuedOk
                /\ pushed'[t] = pushed[t]
                /\ console'[t] = console[t] ]_vars

\* immediateBeaconSend has been called on the empty queue of a page whose
\* only event went out with reportPageView: still one envelope, nothing armed
FlushOfEmptyQueueWitness ==
    /\ codecPc = "flush"
    /\ pc[1] = "idle" /\ nav.sendBeacon
    /\ Len(pushed[1]) = 1
    /\ Len(Envelopes(1)) = 1
    /\ Envelopes(1)[1].pkt.data = pushed[1]
    /\ runtimeInfo[1].dataQueue = <<>>
    /\ timers[1] = {}

\* C27: a page view produces at most three tracking requests: the request
\* of the page view's start, one request with the details in the middle and
\* the request of the page view's end.
AtMostThreeRequests ==
    \A t \in Tabs : Len(Envelopes(t)) <= 3

\* the page of tab t has run detectRuntimeConfig to its end on a browser
\* without navigator.cookieEnabled and with DNT not detected: the probe of
\* testCookieSupport (485-492) has decided runtimeInfo.cookiesSupported
ProbeDecided(t) ==
    /\ load[t] > 0
    /\ pc[t] # "detectRuntimeConfig"
    /\ caught[t].at # "detectRuntimeConfig"
    /\ nav.cookieEnabled = Undefined
    /\ ~Truthy(runtimeInfo[t].dntDetected)

\* C28: without navigator.cookieEnabled and with DNT not detected,
\* testCookieSupport decides by a probe cookie: true when the value it wrote
\* is read back from the cookie store (the store keeps cookies), false
\* otherwise, and the probe cookie is gone afterwards.
ProbeCookieDecides ==
    \A t \in Tabs : ProbeDecided(t) =>
        /\ runtimeInfo[t].cookiesSupported = Bool(nav.cookiesWork)
        /\ ~Visible(jar[cookieName(cookieTestName)], now)

\* what the probe does: it reports false on every store, working or not,
\* and leaves no probe cookie
ProbeCookieAlwaysFalse ==
    \A t \in Tabs : ProbeDecided(t) =>
        /\ runtimeInfo[t].cookiesSupported = Bool(FALSE)
        /\ ~Visible(jar[cookieName(cookieTestName)], now)

\* between two handlers of the page of tab t, on a browser with
\* sendBeacon, a non-empty queue has its flush interval armed
QueueImpliesTimer(t) ==
    (nav.sendBeacon /\ pc[t] \in {"idle", "unloaded"}
            /\ runtimeInfo[t].dataQueue # <<>>) =>
        /\ runtimeInfo[t].queueTimer # Null
        /\ \E tm \in timers[t] : runtimeInfo[t].queueTimer = Num(tm.id)

\* C29: with beacon transport, whenever no handler runs a non-empty queue
\* implies an armed flush interval, and every queued event is eventually
\* handed to the transport, by a timer tick or by the unload flush: again
\* and again the queue is empty and the submitted envelopes hold every event
\* queued so far.
NoEventStranded ==
    /\ [](QueueImpliesTimer(1))
    /\ []<>(nav.sendBeacon =>
                (runtimeInfo[1].dataQueue = <<>> /\ Sent(1) = pushed[1]))

\* events queued by the observer callback while the page is shown have been
\* handed to sendBeacon by a tick of the interval; the page is still shown
NoEventStrandedWitness ==
    /\ nav.sendBeacon /\ pc[1] = "idle"
    /\ ticks >= 1
    /\ Len(Envelopes(1)) >= 2
    /\ Len(pushed[1]) >= 3
    /\ runtimeInfo[1].dataQueue = <<>>
    /\ timers[1] = {}
    /\ Sent(1) = pushed[1]

\* the same, in every state of every tab
QueueAlwaysImpliesTimer ==
    \A t \in Tabs : QueueImpliesTimer(t)

\* C31: under DNT nothing submitted depends on stored cookies.  Whatever the
\* cookie store held at the start, a page with dntDetected true never reads
\* document.cookie and never writes it, no step of it changes the store, its
\* first-seen stamps are the page clock, and every envelope carries 'dnt'
\* as both ids, view count 1 and the page clock: two runs that differ only
\* in the store submit the same envelopes.
DntIgnoresStoredCookies ==
    [][\A t \in Tabs : Truthy(runtimeInfo'[t].dntDetected) =>
        /\ ~cookieUse'[t].read /\ ~cookieUse'[t].written
        /\ jar' = jar
        /\ Resolved(t)' =>
                /\ runtimeInfo'[t].browserFirstSeen = runtimeInfo'[t].clock
                /\ runtimeInfo'[t].sessionFirstSeen = runtimeInfo'[t].clock
                /\ runtimeInfo'[t].sessionViewCount = Num(1)
        /\ \A i \in 1..Len(Envelopes(t)') :
                /\ Envelopes(t)'[i].pkt.bid = Str(S_dnt)
                /\ Envelopes(t)'[i].pkt.sid = Str(S_dnt)
                /\ Envelopes(t)'[i].pkt.svc = Num(1)
                /\ Envelopes(t)'[i].pkt.ts = runtimeInfo'[t].clock ]_vars

\* a page with DNT detected has run to its unload on a browser whose store
\* held a session cookie from the start; the cookie is still there
DntIgnoresStoredCookiesWitness ==
    /\ Truthy(runtimeInfo[1].dntDetected)
    /\ nav.cookiesWork
    /\ jar[cookieName(cookieSessionIDName)] # NoCookie
    /\ pc[1] = "unloaded" /\ Resolved(1)
    /\ Len(Envelopes(1)) >= 2
    /\ Envelopes(1)[1].pkt.svc = Num(1)

\* C32: identity resolution is robust to arbitrary cookie contents: whatever
\* an identity cookie held at the start, on a browser with cookies the
\* startup of the page ends with non-null ids, numeric first-seen stamps and
\* a session view count of at least 1, and with the view-start event
\* submitted where sendBeacon exists.
RobustToCookieContents ==
    \A t \in Tabs :
        ( /\ load[t] > 0 /\ pc[t] \in {"idle", "unloaded"}
          /\ runtimeInfo[t].cookiesSupported = Bool(TRUE) ) =>
            /\ runtimeInfo[t].browserID \notin {Null, Undefined}
            /\ runtimeInfo[t].browserFirstSeen.t = "number"
            /\ runtimeInfo[t].sessionID \notin {Null, Undefined}
            /\ runtimeInfo[t].sessionFirstSeen.t = "number"
            /\ runtimeInfo[t].sessionViewCount.t = "number"
            /\ runtimeInfo[t].sessionViewCount.n >= 1
            /\ nav.sendBeacon =>
                    /\ Sent(t) # <<>>
                    /\ Sent(t)[1] = pushed[t][1]

\* C33: on a platform without sendBeacon the dispatcher stays idle: no flush
\* interval stays armed and firing for ever and the queue does not grow
\* without bound.  As a step property: a callback of the flush interval on
\* such a platform leaves the interval disarmed or the queue shorter, so
\* that the same interval does not fire over the same queue again.
IdleWithoutBeacon ==
    [][\A t \in Tabs : (~nav.sendBeacon /\ TimerTick(t)) =>
        \/ timers'[t] = {}
        \/ Len(runtimeInfo'[t].dataQueue) < Len(runtimeInfo[t].dataQueue) ]_vars

\* what the program does without sendBeacon: nothing ever leaves the queue,
\* which holds every event of the page load, and nothing is submitted
QueueKeepsAllWithoutBeacon ==
    \A t \in Tabs : ~nav.sendBeacon =>
        /\ runtimeInfo[t].dataQueue = pushed[t]
        /\ beacons[t] = <<>>

\* and an interval, once armed, is still armed as long as the page is shown
IntervalStaysArmedWithoutBeacon ==
    [][\A t \in Tabs : (~nav.sendBeacon /\ timers[t] # {} /\ pc'[t] = "idle"
                            /\ load'[t] = load[t]) =>
            timers'[t] # {} ]_vars

\* the places of the events of one type among the events submitted by the
\* page of tab t
SentOfType(t, type) == {i \in 1..Len(Sent(t)) : Sent(t)[i].type = type}

\* C34: in the sequence of all events submitted by one page load the
\* view-start event is the first event and occurs exactly once, and the
\* view-end event occurs at most once and, when present, is the last event
\* submitted: nothing is submitted behind it.
ViewStartFirstViewEndLast ==
    \A t \in Tabs :
        /\ Sent(t) # <<>> => SentOfType(t, VIEW_START) = {1}
        /\ SentOfType(t, VIEW_END) \subseteq {Len(Sent(t))}
        /\ SentOfType(t, VIEW_END) # {} => pc[t] = "unloaded"

\* a page load has submitted its view-start event, performance events from
\* a tick of the interval and from the unload flush, and its view-end event
ViewStartFirstViewEndLastWitness ==
    /\ pc[1] = "unloaded"
    /\ Len(Envelopes(1)) >= 3
    /\ Len(Sent(1)) >= 4
    /\ Sent(1)[1].type = VIEW_START
    /\ Sent(1)[2].type = VIEW_PERFORMANCE
    /\ Len(Last(Envelopes(1)).pkt.data) >= 2
    /\ Last(Sent(1)).type = VIEW_END

=============================================================================
